---- MODULE Spec2Model ----
(***************************************************************************)
(* Model of the python-dotnet-tools commands (bump, tag, build, test).     *)
(* Text is a sequence of one-character strings, so that the regular        *)
(* expressions, the XML reading and the number formatting of the source    *)
(* are computed the way the code computes them.                            *)
(***************************************************************************)
EXTENDS Integers, Sequences, FiniteSets, TLC

(***************************************************************************)
(* Characters and literals                                                 *)
(***************************************************************************)

\* The decimal digits, in order: the value of DigitChars[i] is i - 1.
DigitChars == <<"0", "1", "2", "3", "4", "5", "6", "7", "8", "9">>

\* \d of the re module (ASCII part).
IsDigit(c) == \E i \in 1..Len(DigitChars) : DigitChars[i] = c

\* \s of the re module and str.strip() (ASCII part).
IsSpace(c) == c \in {" ", "\t", "\n", "\r", "\f"}

DOT == "."

Tag(name) == <<"<">> \o name \o <<">">>

CloseTag(name) == <<"<", "/">> \o name \o <<">">>

nVersion == <<"V", "e", "r", "s", "i", "o", "n">>

nPackageId == <<"P", "a", "c", "k", "a", "g", "e", "I", "d">>

nPropertyGroup == <<"P", "r", "o", "p", "e", "r", "t", "y", "G", "r", "o", "u", "p">>

nProject == <<"P", "r", "o", "j", "e", "c", "t">>

nLangVersion == <<"L", "a", "n", "g">> \o nVersion

MAJOR == <<"-", "-", "m", "a", "j", "o", "r">>

MINOR == <<"-", "-", "m", "i", "n", "o", "r">>

PATCH == <<"-", "-", "p", "a", "t", "c", "h">>

\* An optional string (str | None).
None == [some |-> FALSE, val |-> <<>>]

Some(v) == [some |-> TRUE, val |-> v]

\* No process exit: the function returned.
NoError == [code |-> 0, msg |-> "", arg |-> <<>>]

\* error(msg): log the message and sys.exit(1).  The text of the message is
\* kept as its fixed part (msg) and the value interpolated into it (arg).
error(msg, arg) == [code |-> 1, msg |-> msg, arg |-> arg]

\* The result of a function that either returns a string or exits.
Ret(v) == [val |-> v, err |-> NoError]

Exit(e) == [val |-> <<>>, err |-> e]

(***************************************************************************)
(* Matching                                                                *)
(***************************************************************************)

\* s has the literal lit at position i.
LitAt(s, i, lit) ==
    /\ i >= 1
    /\ i + Len(lit) - 1 <= Len(s)
    /\ \A k \in 1..Len(lit) : s[i + k - 1] = lit[k]

\* The least i in from..to with P(i), or 0 (the leftmost match of a search).
FirstPos(P(_), from, to) ==
    LET i == CHOOSE k \in from..(to + 1) :
                 /\ k = to + 1 \/ P(k)
                 /\ \A m \in from..(k - 1) : ~P(m)
    IN  IF from > to \/ i = to + 1 THEN 0 ELSE i

\* The first position >= i where lit occurs in s, or 0.
FindLit(s, i, lit) ==
    FirstPos(LAMBDA k : LitAt(s, k, lit), i, Len(s) - Len(lit) + 1)

\* The position after the longest run of digits that starts at i (\d*).
RECURSIVE DigitsEnd(_, _)
DigitsEnd(s, i) ==
    IF i <= Len(s) /\ IsDigit(s[i]) THEN DigitsEnd(s, i + 1) ELSE i

\* The position after the longest run of whitespace that starts at i (\s*).
RECURSIVE SpaceEnd(_, _)
SpaceEnd(s, i) ==
    IF i <= Len(s) /\ IsSpace(s[i]) THEN SpaceEnd(s, i + 1) ELSE i

\* \d+\.\d+\.\d+ matched at position i, each \d+ greedy: the position after
\* the match, or 0.  A digit run is followed by a non-digit in the pattern,
\* so giving digits back never yields another match.
SemverEnd(s, i) ==
    LET a == DigitsEnd(s, i)
        b == DigitsEnd(s, a + 1)
        c == DigitsEnd(s, b + 1)
    IN  IF /\ a > i
           /\ a <= Len(s) /\ s[a] = DOT
           /\ b > a + 1
           /\ b <= Len(s) /\ s[b] = DOT
           /\ c > b + 1
        THEN c ELSE 0

\* (<Version>)(\d+\.\d+\.\d+)(</Version>) matched at position i: the
\* position after the match, or 0.
VersionTagEnd(s, i) ==
    IF ~LitAt(s, i, Tag(nVersion)) THEN 0
    ELSE LET e == SemverEnd(s, i + Len(Tag(nVersion)))
         IN  IF e # 0 /\ LitAt(s, e, CloseTag(nVersion))
             THEN e + Len(CloseTag(nVersion)) ELSE 0

\* pattern.search(raw) from position i on: the start of the leftmost match, or 0.
VersionTagSearch(s, i) ==
    FirstPos(LAMBDA k : VersionTagEnd(s, k) # 0, i, Len(s))

(***************************************************************************)
(* Numbers: int() and the formatting of an int in an f-string              *)
(***************************************************************************)

DigitVal(c) == (CHOOSE i \in 1..Len(DigitChars) : DigitChars[i] = c) - 1

\* int(digits): leading zeros are accepted and dropped.
RECURSIVE IntOf(_)
IntOf(ds) ==
    IF ds = <<>> THEN 0
    ELSE 10 * IntOf(SubSeq(ds, 1, Len(ds) - 1)) + DigitVal(ds[Len(ds)])

\* str(n) for n >= 0: no leading zeros.
RECURSIVE StrOf(_)
StrOf(n) ==
    IF n < 10 THEN <<DigitChars[n + 1]>>
    ELSE StrOf(n \div 10) \o <<DigitChars[(n % 10) + 1]>>

\* current.split("."): the three components of a MAJOR.MINOR.PATCH string.
SplitVersion(v) ==
    LET a == DigitsEnd(v, 1)
        b == DigitsEnd(v, a + 1)
    IN  <<SubSeq(v, 1, a - 1), SubSeq(v, a + 1, b - 1), SubSeq(v, b + 1, Len(v))>>

(***************************************************************************)
(* bump.py: the version functions                                          *)
(***************************************************************************)

\* read_current_version on the text of the descriptor.
read_current_version(raw) ==
    LET i == VersionTagSearch(raw, 1)
    IN  IF i = 0 THEN None
        ELSE Some(SubSeq(raw, i + Len(Tag(nVersion)),
                         VersionTagEnd(raw, i) - Len(CloseTag(nVersion)) - 1))

\* Variant of compute_target: without a current version the directives
\* count from 0.0.0.
compute_target_NoCheck(arg, current) ==
    LET cur == IF current.some THEN current.val ELSE <<"0", ".", "0", ".", "0">>
        p == SplitVersion(cur)
    IN  IF arg = MAJOR THEN Ret(StrOf(IntOf(p[1]) + 1) \o <<".", "0", ".", "0">>)
        ELSE IF arg = MINOR
        THEN Ret(StrOf(IntOf(p[1])) \o <<".">> \o StrOf(IntOf(p[2]) + 1) \o <<".", "0">>)
        ELSE IF arg = PATCH
        THEN Ret(StrOf(IntOf(p[1])) \o <<".">> \o StrOf(IntOf(p[2])) \o <<".">>
                 \o StrOf(IntOf(p[3]) + 1))
        ELSE Ret(arg)

\* Variant of compute_target: --major leaves the minor component.
compute_target_KeepMinor(arg, current) ==
    IF arg \in {MAJOR, MINOR, PATCH} /\ ~current.some
    THEN Exit(error(" requires existing version (<Version> tag missing in csproj)", arg))
    ELSE LET p == SplitVersion(current.val)
         IN  IF arg = MAJOR
             THEN Ret(StrOf(IntOf(p[1]) + 1) \o <<".">> \o StrOf(IntOf(p[2])) \o <<".", "0">>)
             ELSE IF arg = MINOR
             THEN Ret(StrOf(IntOf(p[1])) \o <<".">> \o StrOf(IntOf(p[2]) + 1) \o <<".", "0">>)
             ELSE IF arg = PATCH
             THEN Ret(StrOf(IntOf(p[1])) \o <<".">> \o StrOf(IntOf(p[2])) \o <<".">>
                      \o StrOf(IntOf(p[3]) + 1))
             ELSE Ret(arg)

\* compute_target(arg, current): the target version, or the exit of error().
compute_target(arg, current) ==
    IF arg \in {MAJOR, MINOR, PATCH} /\ ~current.some
    THEN Exit(error(" requires existing version (<Version> tag missing in csproj)", arg))
    ELSE IF arg = MAJOR
    THEN LET p == SplitVersion(current.val)
         IN  Ret(StrOf(IntOf(p[1]) + 1) \o <<".", "0", ".", "0">>)
    ELSE IF arg = MINOR
    THEN LET p == SplitVersion(current.val)
         IN  Ret(StrOf(IntOf(p[1])) \o <<".">> \o StrOf(IntOf(p[2]) + 1) \o <<".", "0">>)
    ELSE IF arg = PATCH
    THEN LET p == SplitVersion(current.val)
         IN  Ret(StrOf(IntOf(p[1])) \o <<".">> \o StrOf(IntOf(p[2])) \o <<".">>
                 \o StrOf(IntOf(p[3]) + 1))
    ELSE Ret(arg)

\* re.match(...) in place of re.fullmatch(...): a prefix is enough.
validate_version_Prefix(v) ==
    IF SemverEnd(v, 1) = 0
    THEN error("Invalid version format: ", v)
    ELSE NoError

\* validate_version(v): re.fullmatch(r"\d+\.\d+\.\d+", v), else error().
validate_version(v) ==
    IF SemverEnd(v, 1) # Len(v) + 1
    THEN error("Invalid version format: ", v)
    ELSE NoError

(***************************************************************************)
(* bump.py: the transform of the descriptor text                           *)
(***************************************************************************)

\* f"{indent}<Version>{version}</Version>\n" with indent = four spaces.
VersionLine(version) ==
    <<" ", " ", " ", " ">> \o Tag(nVersion) \o version \o CloseTag(nVersion) \o <<"\n">>

\* raw[:at] + text + raw[at:], with at the 1-based position of raw[at:].
InsertAt(raw, at, text) ==
    SubSeq(raw, 1, at - 1) \o text \o SubSeq(raw, at, Len(raw))

\* re.compile(r"(<PackageId>.*?</PackageId>\s*)", re.DOTALL).search(raw):
\* the position after the match (m.end()), or 0.  The match starts at the
\* first opening tag, and exists when a closing tag follows it.
PackageIdEnd(raw) ==
    LET o == FindLit(raw, 1, Tag(nPackageId))
        c == IF o = 0 THEN 0
             ELSE FindLit(raw, o + Len(Tag(nPackageId)), CloseTag(nPackageId))
    IN  IF c = 0 THEN 0 ELSE SpaceEnd(raw, c + Len(CloseTag(nPackageId)))

\* re.compile(r"(<PropertyGroup>\s*)", re.DOTALL).search(raw): m2.end(), or 0.
PropertyGroupEnd(raw) ==
    LET o == FindLit(raw, 1, Tag(nPropertyGroup))
    IN  IF o = 0 THEN 0 ELSE SpaceEnd(raw, o + Len(Tag(nPropertyGroup)))

\* Every matching tag replaced, as pattern.sub does without count=1.
RECURSIVE ReplaceAllFrom(_, _, _)
ReplaceAllFrom(raw, from, version) ==
    LET i == VersionTagSearch(raw, from)
    IN  IF i = 0 THEN SubSeq(raw, from, Len(raw))
        ELSE SubSeq(raw, from, i - 1) \o Tag(nVersion) \o version \o CloseTag(nVersion)
             \o ReplaceAllFrom(raw, VersionTagEnd(raw, i), version)

\* Variant of insert_or_replace_version: pattern.sub without count=1.
insert_or_replace_version_All(raw, version) ==
    ReplaceAllFrom(raw, 1, version)

\* Variant of insert_or_replace_version: the opening tag of the property
\* group is looked for before the PackageId element.
insert_or_replace_version_GroupFirst(raw, version) ==
    LET i == VersionTagSearch(raw, 1)
    IN  IF i # 0
        THEN SubSeq(raw, 1, i - 1) \o Tag(nVersion) \o version \o CloseTag(nVersion)
             \o SubSeq(raw, VersionTagEnd(raw, i), Len(raw))
        ELSE IF PropertyGroupEnd(raw) # 0
        THEN InsertAt(raw, PropertyGroupEnd(raw), VersionLine(version))
        ELSE IF PackageIdEnd(raw) # 0
        THEN InsertAt(raw, PackageIdEnd(raw), VersionLine(version))
        ELSE raw \o <<"\n">> \o VersionLine(version)

\* Variant of insert_or_replace_version: a tag that is there is not looked
\* for, the version is always inserted.
insert_or_replace_version_Insert(raw, version) ==
    IF PackageIdEnd(raw) # 0
    THEN InsertAt(raw, PackageIdEnd(raw), VersionLine(version))
    ELSE IF PropertyGroupEnd(raw) # 0
    THEN InsertAt(raw, PropertyGroupEnd(raw), VersionLine(version))
    ELSE raw \o <<"\n">> \o VersionLine(version)

\* insert_or_replace_version(raw, version).
insert_or_replace_version(raw, version) ==
    LET i == VersionTagSearch(raw, 1)
    IN  IF i # 0
        THEN \* pattern.sub(lambda m: m.group(1) + version + m.group(3), raw, count=1)
             SubSeq(raw, 1, i - 1) \o Tag(nVersion) \o version \o CloseTag(nVersion)
             \o SubSeq(raw, VersionTagEnd(raw, i), Len(raw))
        ELSE IF PackageIdEnd(raw) # 0
        THEN InsertAt(raw, PackageIdEnd(raw), VersionLine(version))
        ELSE IF PropertyGroupEnd(raw) # 0
        THEN InsertAt(raw, PropertyGroupEnd(raw), VersionLine(version))
        ELSE raw \o <<"\n">> \o VersionLine(version)

\* Variant of verify: the tag is looked for as the line that an insertion
\* writes, four spaces before it and a line break behind.
verify_Line(raw, version) ==
    FindLit(raw, 1, VersionLine(version)) # 0

\* verify(csproj, version) on the text read back: a literal substring test.
verify(raw, version) ==
    FindLit(raw, 1, Tag(nVersion) \o version \o CloseTag(nVersion)) # 0

(***************************************************************************)
(* tag.py: reading the version with xml.etree.ElementTree                  *)
(***************************************************************************)

\* tag.endswith(suffix).
endswith(t, suffix) ==
    Len(t) >= Len(suffix) /\ SubSeq(t, Len(t) - Len(suffix) + 1, Len(t)) = suffix

\* A tag name of the inputs: no "/", no space, no markup character.
IsName(n) ==
    /\ n # <<>>
    /\ \A k \in 1..Len(n) : ~IsSpace(n[k]) /\ n[k] \notin {"<", ">", "/", "&", "!", "?", "=", "\""}

\* The one attribute of the inputs: a default namespace, xmlns="u".
NsAttr == <<" ", "x", "m", "l", "n", "s", "=", "\"", "u", "\"">>

\* The prefix ElementTree puts before the names of that namespace: {u}.
NsPrefix == <<"{", "u", "}">>

\* ET.parse: the elements of the text in document order, each with its name,
\* its tag (the name after the prefix of the default namespace in scope),
\* that prefix (ns), the index of its parent (0 for the root) and its .text
\* (the text between its start tag and its first child or its end tag).  ok
\* is FALSE where ET.parse raises ParseError: a tag that is not closed or
\* closes another element, text outside the root, a second root, no root.
\*   i: the position read; stack: the indices of the open elements;
\*   first: whether the text read next is the .text of the innermost one.
RECURSIVE ParseFrom(_, _, _, _, _)
ParseFrom(s, i, stack, elems, first) ==
    IF i > Len(s) THEN [ok |-> stack = <<>> /\ elems # <<>>, elems |-> elems]
    ELSE IF s[i] = "<"
    THEN LET j == FindLit(s, i + 1, <<">">>)
             body == SubSeq(s, i + 1, j - 1)
             declares == endswith(body, NsAttr)
             nm == IF declares THEN SubSeq(body, 1, Len(body) - Len(NsAttr)) ELSE body
             ns == IF declares THEN NsPrefix
                   ELSE IF stack = <<>> THEN <<>>
                   ELSE elems[stack[Len(stack)]].ns
         IN  IF j = 0 THEN [ok |-> FALSE, elems |-> elems]
             ELSE IF body # <<>> /\ body[1] = "/"
             THEN IF /\ stack # <<>>
                     /\ elems[stack[Len(stack)]].name = SubSeq(body, 2, Len(body))
                  THEN ParseFrom(s, j + 1, SubSeq(stack, 1, Len(stack) - 1), elems, FALSE)
                  ELSE [ok |-> FALSE, elems |-> elems]
             ELSE IF ~IsName(nm) \/ (stack = <<>> /\ elems # <<>>)
             THEN [ok |-> FALSE, elems |-> elems]
             ELSE ParseFrom(s, j + 1, Append(stack, Len(elems) + 1),
                            Append(elems, [name |-> nm,
                                           tag |-> ns \o nm,
                                           ns |-> ns,
                                           parent |-> IF stack = <<>> THEN 0
                                                      ELSE stack[Len(stack)],
                                           text |-> <<>>]),
                            TRUE)
    ELSE LET t == FindLit(s, i, <<"<">>)
             e == IF t = 0 THEN Len(s) + 1 ELSE t
             txt == SubSeq(s, i, e - 1)
         IN  IF stack = <<>>
             THEN IF \A k \in 1..Len(txt) : IsSpace(txt[k])
                  THEN ParseFrom(s, e, stack, elems, FALSE)
                  ELSE [ok |-> FALSE, elems |-> elems]
             ELSE IF \E k \in 1..Len(txt) : txt[k] = "&"
             THEN [ok |-> FALSE, elems |-> elems]
             ELSE ParseFrom(s, e, stack,
                            IF first
                            THEN [elems EXCEPT ![stack[Len(stack)]].text = txt]
                            ELSE elems,
                            FALSE)

ET_parse(s) == ParseFrom(s, 1, <<>>, <<>>, FALSE)

\* str.strip().
RECURSIVE StripEnd(_)
StripEnd(t) ==
    IF t # <<>> /\ IsSpace(t[Len(t)]) THEN StripEnd(SubSeq(t, 1, Len(t) - 1)) ELSE t

strip(t) == StripEnd(SubSeq(t, SpaceEnd(t, 1), Len(t)))

\* pg.find('Version'): the index of the first child of pg tagged Version, or 0.
FindChild(elems, pg, name) ==
    LET ks == {k \in 1..Len(elems) : elems[k].parent = pg /\ elems[k].tag = name}
    IN  IF ks = {} THEN 0 ELSE CHOOSE k \in ks : \A m \in ks : k <= m

\* The loop over root.findall('.//PropertyGroup'), from element k on: the
\* version of the first group whose Version child has text, stripped; the
\* loop breaks there.  <<>> when no group has one.
RECURSIVE PropertyGroupScan(_, _)
PropertyGroupScan(elems, k) ==
    IF k > Len(elems) THEN <<>>
    ELSE IF elems[k].tag = nPropertyGroup /\ k > 1
    THEN LET v == FindChild(elems, k, nVersion)
         IN  IF v # 0 /\ elems[v].text # <<>> THEN strip(elems[v].text)
             ELSE PropertyGroupScan(elems, k + 1)
    ELSE PropertyGroupScan(elems, k + 1)

\* The loop over root.iter(), from element k on: the stripped text of the
\* first element whose tag ends with 'Version' and whose text does not strip
\* to nothing.  <<>> when there is none.
RECURSIVE AnyVersionScan(_, _)
AnyVersionScan(elems, k) ==
    IF k > Len(elems) THEN <<>>
    ELSE IF endswith(elems[k].tag, nVersion) /\ strip(elems[k].text) # <<>>
    THEN strip(elems[k].text)
    ELSE AnyVersionScan(elems, k + 1)

\* Variant of read_version_from_csproj: without a version it returns an empty
\* value.
read_version_from_csproj_NoExit(raw) ==
    LET doc == ET_parse(raw)
        version == PropertyGroupScan(doc.elems, 1)
        other == AnyVersionScan(doc.elems, 1)
    IN  IF ~doc.ok THEN Exit(error("Failed to parse csproj", <<>>))
        ELSE IF version # <<>> THEN Ret(version)
        ELSE Ret(other)

\* read_version_from_csproj on the text of the descriptor.
read_version_from_csproj(raw) ==
    LET doc == ET_parse(raw)
        version == PropertyGroupScan(doc.elems, 1)
        other == AnyVersionScan(doc.elems, 1)
    IN  IF ~doc.ok THEN Exit(error("Failed to parse csproj", <<>>))
        ELSE IF version # <<>> THEN Ret(version)
        ELSE IF other # <<>> THEN Ret(other)
        ELSE Exit(error("Could not find <Version> property in", <<>>))

(***************************************************************************)
(* The file system seen by the commands                                    *)
(***************************************************************************)

\* A path is a sequence of segments and a segment a sequence of characters.
\* The tree under the working directory is the sequence of its entries in
\* the order the operating system lists them, each [parts, is_file];
\* the directories above an entry exist too.

UpperChars == <<"A", "B", "C", "D", "E", "F", "G", "H", "I", "J", "K", "L", "M",
                "N", "O", "P", "Q", "R", "S", "T", "U", "V", "W", "X", "Y", "Z">>

LowerChars == <<"a", "b", "c", "d", "e", "f", "g", "h", "i", "j", "k", "l", "m",
                "n", "o", "p", "q", "r", "s", "t", "u", "v", "w", "x", "y", "z">>

\* str.lower(), character by character.
lower(t) ==
    [k \in 1..Len(t) |->
        IF \E i \in 1..Len(UpperChars) : UpperChars[i] = t[k]
        THEN LowerChars[CHOOSE i \in 1..Len(UpperChars) : UpperChars[i] = t[k]]
        ELSE t[k]]

csprojExt == <<".", "c", "s", "p", "r", "o", "j">>

slnExt == <<".", "s", "l", "n">>

sSrc == <<"s", "r", "c">>

sBump == <<"b", "u", "m", "p">>

IsPrefix(p, q) == Len(p) <= Len(q) /\ SubSeq(q, 1, Len(p)) = p

\* Path.exists(), Path.is_file(), Path.is_dir(); the empty path is the
\* working directory.
exists(fs, p) == p = <<>> \/ \E k \in 1..Len(fs) : IsPrefix(p, fs[k].parts)

is_file(fs, p) == \E k \in 1..Len(fs) : fs[k].parts = p /\ fs[k].is_file

is_dir(fs, p) == exists(fs, p) /\ ~is_file(fs, p)

\* Path.name.
name(p) == p[Len(p)]

\* Path.suffix: the name from its last dot on.
suffix(p) ==
    LET n == name(p)
        dots == {k \in 2..(Len(n) - 1) : n[k] = "."}
    IN  IF dots = {} THEN <<>>
        ELSE SubSeq(n, CHOOSE k \in dots : \A m \in dots : m <= k, Len(n))

\* dir.glob('*' + ext): the children of dir whose name ends with ext (the
\* name that is ext alone too), in the order the directory lists them.
glob(fs, dir, ext) ==
    SelectSeq(fs, LAMBDA e : /\ Len(e.parts) = Len(dir) + 1
                             /\ IsPrefix(dir, e.parts)
                             /\ endswith(name(e.parts), ext))

\* dir.rglob('*' + ext): the same at any depth under dir.
rglob(fs, dir, ext) ==
    SelectSeq(fs, LAMBDA e : /\ Len(e.parts) > Len(dir)
                             /\ IsPrefix(dir, e.parts)
                             /\ endswith(name(e.parts), ext))

\* The order of characters that sorted() compares names by (code points).
CharOrder == <<".">> \o DigitChars \o UpperChars \o LowerChars

Ord(c) == CHOOSE i \in 1..Len(CharOrder) : CharOrder[i] = c

\* a < b for two names, as str compares.
NameLess(a, b) ==
    \E k \in 1..Len(b) :
        /\ \A m \in 1..(k - 1) : m <= Len(a) /\ a[m] = b[m]
        /\ k > Len(a) \/ Ord(a[k]) < Ord(b[k])

\* sorted(candidates): the entries of one directory by name.
RECURSIVE sorted(_)
sorted(es) ==
    IF es = <<>> THEN <<>>
    ELSE LET k == CHOOSE i \in 1..Len(es) :
                      \A m \in 1..Len(es) :
                          m = i \/ ~NameLess(name(es[m].parts), name(es[i].parts))
         IN  <<es[k]>> \o sorted(SubSeq(es, 1, k - 1) \o SubSeq(es, k + 1, Len(es)))

\* [p.name for p in candidates].
Names(es) == [k \in 1..Len(es) |-> name(es[k].parts)]

\* The result of a function that returns a path or exits; names is the list
\* of names that the message of the exit enumerates.
Found(p) == [path |-> p, err |-> NoError, names |-> <<>>, more |-> FALSE]

NotFound(msg, names, more) ==
    [path |-> <<>>, err |-> error(msg, <<>>), names |-> names, more |-> more]

(***************************************************************************)
(* Locating the project descriptor or the solution                         *)
(***************************************************************************)

\* pathlib.Path(text) for a relative path: its segments, split at "/";
\* empty segments and "." segments are dropped.
RECURSIVE Path(_)
Path(t) ==
    LET i == FindLit(t, 1, <<"/">>)
        Segment(g) == IF g \in {<<>>, <<".">>} THEN <<>> ELSE <<g>>
    IN  IF t = <<>> THEN <<>>
        ELSE IF i = 0 THEN Segment(t)
        ELSE Segment(SubSeq(t, 1, i - 1)) \o Path(SubSeq(t, i + 1, Len(t)))

\* The branch of resolve_csproj and of the other locators that is left when
\* the candidates of a directory are known: none and several are errors.
\* The variant below returns the first candidate when there are several.
OneOf_First(candidates, none, several) ==
    IF candidates = <<>> THEN NotFound(none, <<>>, FALSE)
    ELSE Found(candidates[1].parts)

OneOf(candidates, none, several) ==
    IF candidates = <<>> THEN NotFound(none, <<>>, FALSE)
    ELSE IF Len(candidates) > 1 THEN NotFound(several, Names(candidates), FALSE)
    ELSE Found(candidates[1].parts)

\* bump.resolve_csproj(argv); argv[3] here is argv[2] of the source.
resolve_csproj(fs, argv) ==
    IF Len(argv) >= 3
    THEN LET supplied == Path(argv[3])
         IN  IF ~exists(fs, supplied) THEN NotFound("Path not found: ", <<>>, FALSE)
             ELSE IF is_file(fs, supplied)
             THEN IF lower(suffix(supplied)) # csprojExt
                  THEN NotFound("File is not a .csproj: ", <<>>, FALSE)
                  ELSE Found(supplied)
             ELSE OneOf(sorted(glob(fs, supplied, csprojExt)),
                        "No .csproj file found in directory: ",
                        "Multiple .csproj files found in directory (choose one explicitly): ")
    ELSE IF ~exists(fs, <<sSrc>>) \/ ~is_dir(fs, <<sSrc>>)
    THEN NotFound("Auto-discovery failed: directory does not exist: ", <<>>, FALSE)
    ELSE OneOf(sorted(glob(fs, <<sSrc>>, csprojExt)),
               "Auto-discovery found no .csproj under: ",
               "Auto-discovery found multiple .csproj files under (specify one explicitly): ")

\* The number of names that the message of tag.find_single_csproj shows.
MaxNamesShown == 5

\* tag.find_single_csproj(base).
find_single_csproj(fs, base) ==
    LET csprojs == SelectSeq(rglob(fs, base, csprojExt), LAMBDA e : e.is_file)
    IN  IF csprojs = <<>> THEN NotFound("No .csproj file found under ", <<>>, FALSE)
        ELSE IF Len(csprojs) > 1
        THEN NotFound("Multiple .csproj files found. Please provide a more specific path. Found: ",
                      Names(SubSeq(csprojs, 1, IF Len(csprojs) > MaxNamesShown
                                               THEN MaxNamesShown ELSE Len(csprojs))),
                      Len(csprojs) > MaxNamesShown)
        ELSE Found(csprojs[1].parts)

\* build.pick_solution(target_path, solution_name), solution_name optional.
pick_solution(fs, target_path, solution_name) ==
    LET solutions == SelectSeq(glob(fs, target_path, slnExt), LAMBDA e : e.is_file)
        candidate == target_path \o Path(solution_name.val)
        matches == SelectSeq(solutions, LAMBDA e : name(e.parts) = solution_name.val)
    IN  IF solution_name.some /\ solution_name.val # <<>>
        THEN IF exists(fs, candidate) /\ is_file(fs, candidate) THEN Found(candidate)
             ELSE IF matches # <<>> THEN Found(matches[1].parts)
             ELSE NotFound("Specified solution was not found under ", <<>>, FALSE)
        ELSE IF solutions = <<>>
        THEN NotFound("No solution (.sln) found under the target directory.", <<>>, FALSE)
        ELSE IF Len(solutions) > 1
        THEN NotFound("Multiple solutions found under the target directory. Found: ",
                      Names(solutions), FALSE)
        ELSE Found(solutions[1].parts)

(***************************************************************************)
(* test.py: the projects to run                                            *)
(***************************************************************************)

sSetup == <<"s", "e", "t", "u", "p">>

\* Variant of is_setup_path: the comparison without lower().
is_setup_path_CaseSensitive(path) ==
    \E k \in 1..Len(path) : path[k] = <<"S", "e", "t", "u", "p">>

\* test.is_setup_path(path).
is_setup_path(path) ==
    \E k \in 1..Len(path) : lower(path[k]) = sSetup

\* test.collect_test_projects(base): the entries returned, in order.  base is
\* resolved, so the parts of a path found start with those of the working
\* directory (at).
collect_test_projects(fs, at, base) ==
    SelectSeq(rglob(fs, base, csprojExt),
              LAMBDA e : e.is_file /\ ~is_setup_path(at \o e.parts))

(***************************************************************************)
(* State                                                                   *)
(***************************************************************************)

VARIABLES
    cmd,              \* the command that runs: "bump", "tag", "build", "test"
    pc,               \* the step of its main() that comes next
    argv,             \* its arguments, argv[1] the program name
    sys_argv,         \* sys.argv, the argument vector of the process
    cwd,              \* the working directory (absolute, as segments)
    entries,          \* the tree under the working directory
    content,          \* the text of the project descriptor
    backups,          \* the backup files beside it: a set of [ts, data]
    clock,            \* the last second read from datetime.now()
    status,           \* the exit of the command: [code, msg, arg]
    base,             \* the directory the command works in, resolved
    located,          \* what the locator of the command returned
    current_version,  \* bump.main: current_version
    target_version,   \* bump.main: target_version
    backup,           \* bump.main: backup (the second in its name), optional
    raw,              \* bump.main: raw
    matched,          \* bump.main: matched
    version,          \* tag.main: version
    push,             \* tag.main: push
    remote,           \* tag.main: remote
    solution_name,    \* build.main: solution_name, optional
    test_projects,    \* test.main: test_projects
    no_restore,       \* build.main: flags['no_restore']
    configuration,    \* build.main: configuration, optional
    calls,            \* the external processes run so far: [prog, args, code]
    removed,          \* clean: removed
    visited,          \* history: the directories clean called remove_dir_tree on
    invoked,          \* history: the commands cli.main called: [name, args]
    wrote,            \* history: this run wrote the descriptor
    before,           \* history: the descriptor and the backups when the run began
    touched,          \* history: another program wrote the descriptor in this run
    warned,           \* history: the warning the run logged about its backup
    runs              \* the number of runs begun

vars == <<cmd, pc, argv, sys_argv, cwd, entries, content, backups, clock, status, base, located,
          current_version, target_version, backup, raw, matched, version,
          push, remote, solution_name, test_projects, no_restore, configuration,
          calls, removed, visited, invoked, wrote, before, touched, warned, runs>>

\* The variables of one run of bump.main that a step leaves alone are named
\* in each action; these never change within a run.
env == <<cmd, cwd, entries, base>>

\* The locals of the other commands.
extra == <<no_restore, configuration, calls, removed, visited, invoked>>

foreign == <<version, push, remote, solution_name, test_projects, extra>>

Running == [code |-> -1, msg |-> "", arg |-> <<>>]

NoBackup == [some |-> FALSE, ts |-> 0]

(***************************************************************************)
(* Bounds and inputs                                                       *)
(***************************************************************************)

\* Runs of bump one after the other.
MaxRuns == 2

\* Seconds the clock can show.
MaxClock == 1

Str_1_2_9 == <<"1", ".", "2", ".", "9">>

Str_2_0_0 == <<"2", ".", "0", ".", "0">>

\* A descriptor with a version and a package id.
DocFull ==
    Tag(nProject) \o Tag(nPropertyGroup) \o <<"\n">>
    \o Tag(nPackageId) \o <<"F">> \o CloseTag(nPackageId) \o <<"\n">>
    \o Tag(nVersion) \o Str_1_2_9 \o CloseTag(nVersion) \o <<"\n">>
    \o CloseTag(nPropertyGroup) \o CloseTag(nProject)

\* A descriptor with a package id and no version.
DocPackage ==
    Tag(nProject) \o Tag(nPropertyGroup) \o <<"\n">>
    \o Tag(nPackageId) \o <<"F">> \o CloseTag(nPackageId) \o <<"\n">>
    \o CloseTag(nPropertyGroup) \o CloseTag(nProject)

\* A descriptor with an empty property group.
DocGroup ==
    Tag(nProject) \o Tag(nPropertyGroup) \o <<"\n">>
    \o CloseTag(nPropertyGroup) \o CloseTag(nProject)

\* A descriptor whose version has two numbers.
DocShort ==
    Tag(nProject) \o Tag(nPropertyGroup)
    \o Tag(nVersion) \o <<"1", ".", "0">> \o CloseTag(nVersion)
    \o CloseTag(nPropertyGroup) \o CloseTag(nProject)

\* A descriptor with no property group.
DocBare == Tag(nProject) \o CloseTag(nProject)

\* What another program may leave in the descriptor.
DocOther == Tag(nProject) \o <<"x">> \o CloseTag(nProject)

BumpDocs == {DocFull, DocPackage, DocGroup, DocBare}

BumpArgs == {MAJOR, MINOR, PATCH, Str_2_0_0, <<"2", ".", "0">>, <<>>}

fA == [parts |-> <<sSrc, <<"A">> \o csprojExt>>, is_file |-> TRUE]

fB == [parts |-> <<sSrc, <<"B">> \o csprojExt>>, is_file |-> TRUE]

\* The trees of the runs of bump: one descriptor, two, none.
BumpTrees == {<<fA>>, <<fB, fA>>, <<>>}

\* The argument lists of bump: the directive alone, or with the directory.
BumpArgvs ==
    {<<sBump>>}
    \cup {<<sBump, a>> : a \in BumpArgs}
    \cup {<<sBump, a, sSrc>> : a \in {PATCH}}

(***************************************************************************)
(* bump.py: main                                                           *)
(***************************************************************************)

\* The file name.bak.<ts> holds data: shutil.copy2 creates or overwrites it.
PutBackup(bs, ts, data) ==
    {b \in bs : b.ts # ts} \cup {[ts |-> ts, data |-> data]}

\* Variant of create_backup: the exception of the copy is swallowed and the
\* path is returned.
create_backup_Swallow(bs, data, ts, fault) ==
    [ok |-> TRUE,
     backup |-> [some |-> TRUE, ts |-> ts],
     backups |-> IF fault = "none" THEN PutBackup(bs, ts, data)
                 ELSE IF fault = "partial" THEN PutBackup(bs, ts, <<>>)
                 ELSE bs]

\* create_backup(csproj) at second ts, the descriptor holding data.  The copy
\* either succeeds (fault "none") or raises OSError: before the file is
\* created ("nofile"), while it is written ("partial"), or when its
\* metadata is copied, the data being there ("nostat").
create_backup(bs, data, ts, fault) ==
    [ok |-> fault = "none",
     backup |-> IF fault = "none" THEN [some |-> TRUE, ts |-> ts] ELSE NoBackup,
     backups |-> IF fault \in {"none", "nostat"} THEN PutBackup(bs, ts, data)
                 ELSE IF fault = "partial" THEN PutBackup(bs, ts, <<>>)
                 ELSE bs]

Faults == {"none", "nofile", "partial", "nostat"}

\* Variant of step 8: every backup file beside the descriptor is removed.
cleanup_All(bs, bk, ok, unlinked, text) ==
    [backups |-> IF ok /\ unlinked THEN {} ELSE bs,
     content |-> text,
     warned |-> IF ~ok THEN "Backup retained"
                ELSE IF unlinked THEN "" ELSE "Backup not deleted"]

\* Variant of step 8: an unverified write is undone from the backup.
cleanup_Rollback(bs, bk, ok, unlinked, text) ==
    [backups |-> IF ok /\ unlinked THEN {b \in bs : b.ts # bk.ts} ELSE bs,
     content |-> IF ok THEN text ELSE <<>>,
     warned |-> IF ~ok THEN "Backup retained"
                ELSE IF unlinked THEN "" ELSE "Backup not deleted"]

\* Step 8 of main: backup.unlink() when verified (ok), unlinked telling
\* whether the unlink went through or raised; the descriptor (text) is left
\* as it is; what is logged about the backup.
cleanup(bs, bk, ok, unlinked, text) ==
    [backups |-> IF ok /\ unlinked THEN {b \in bs : b.ts # bk.ts} ELSE bs,
     content |-> text,
     warned |-> IF ~ok THEN "Backup retained"
                ELSE IF unlinked THEN "" ELSE "Backup not deleted"]

\* The locals of a run of bump.main before its first step.
FreshRun ==
    /\ status' = Running
    /\ located' = Found(<<>>)
    /\ current_version' = None
    /\ target_version' = <<>>
    /\ backup' = NoBackup
    /\ raw' = <<>>
    /\ matched' = FALSE
    /\ wrote' = FALSE
    /\ touched' = FALSE
    /\ warned' = ""

locals == <<located, current_version, target_version, backup, raw, matched>>

hist == <<wrote, before, touched, warned, runs>>

\* main: the argument count; fewer than two prints the usage and returns 1.
BumpMain ==
    /\ cmd = "bump" /\ pc = "main"
    /\ IF Len(argv) < 2
       THEN /\ pc' = "returned"
            /\ status' = [code |-> 1, msg |-> "Usage", arg |-> <<>>]
       ELSE /\ pc' = "resolve"
            /\ UNCHANGED status
    /\ UNCHANGED <<env, foreign, argv, sys_argv, content, backups, clock, locals, hist>>

\* Step 1: resolve_csproj(argv), and the test that the file exists.
BumpResolve ==
    /\ cmd = "bump" /\ pc = "resolve"
    /\ located' = resolve_csproj(entries, argv)
    /\ IF located'.err.code # 0
       THEN pc' = "exited" /\ status' = located'.err
       ELSE IF ~exists(entries, located'.path)
       THEN pc' = "exited" /\ status' = error("Project file not found: ", <<>>)
       ELSE pc' = "read" /\ UNCHANGED status
    /\ UNCHANGED <<env, foreign, argv, sys_argv, content, backups, clock, current_version,
                   target_version, backup, raw, matched, hist>>

\* Step 2: read_current_version(csproj); read_text() of a directory raises
\* an OSError that is not caught.
BumpRead ==
    /\ cmd = "bump" /\ pc = "read"
    /\ IF is_file(entries, located.path)
       THEN /\ current_version' = read_current_version(content)
            /\ pc' = "compute"
            /\ UNCHANGED status
       ELSE /\ pc' = "exited"
            /\ status' = error("OSError", <<>>)
            /\ UNCHANGED current_version
    /\ UNCHANGED <<env, foreign, argv, sys_argv, content, backups, clock, located,
                   target_version, backup, raw, matched, hist>>

\* Step 3: compute_target(arg, current_version), and the test of its result.
BumpCompute ==
    /\ cmd = "bump" /\ pc = "compute"
    /\ LET r == compute_target(argv[2], current_version)
       IN  IF r.err.code # 0
           THEN pc' = "exited" /\ status' = r.err /\ UNCHANGED target_version
           ELSE IF r.val = <<>>
           THEN /\ pc' = "exited"
                /\ status' = error("Failed to compute target version", <<>>)
                /\ target_version' = r.val
           ELSE pc' = "validate" /\ target_version' = r.val /\ UNCHANGED status
    /\ UNCHANGED <<env, foreign, argv, sys_argv, content, backups, clock, located,
                   current_version, backup, raw, matched, hist>>

\* Variant of step 4: the backup is made before the format is validated.
BumpValidate_AfterBackup ==
    /\ cmd = "bump" /\ pc = "validate"
    /\ LET e == validate_version(target_version)
           r == create_backup(backups, content, clock, "none")
       IN  IF e.code # 0
           THEN /\ pc' = "exited" /\ status' = e
                /\ backups' = r.backups /\ backup' = r.backup
           ELSE /\ pc' = "backup"
                /\ UNCHANGED <<status, backups, backup>>
    /\ UNCHANGED <<env, foreign, argv, sys_argv, content, clock, located, current_version,
                   target_version, raw, matched, hist>>

\* Step 4: validate_version(target_version).
BumpValidate ==
    /\ cmd = "bump" /\ pc = "validate"
    /\ LET e == validate_version(target_version)
       IN  IF e.code # 0
           THEN pc' = "exited" /\ status' = e
           ELSE pc' = "backup" /\ UNCHANGED status
    /\ UNCHANGED <<env, foreign, argv, sys_argv, content, backups, clock, locals, hist>>

\* Step 5: create_backup(csproj).  The second read is not before the last one
\* read; an OSError of the copy is not caught and ends the process.
BumpBackup ==
    /\ cmd = "bump" /\ pc = "backup"
    /\ \E ts \in clock..MaxClock, fault \in Faults :
          LET r == create_backup(backups, content, ts, fault)
          IN  /\ clock' = ts
              /\ backups' = r.backups
              /\ backup' = r.backup
              /\ IF r.ok
                 THEN pc' = "update" /\ UNCHANGED status
                 ELSE pc' = "exited" /\ status' = error("OSError", <<>>)
    /\ UNCHANGED <<env, foreign, argv, sys_argv, content, located, current_version,
                   target_version, raw, matched, hist>>

\* Step 6, first half: raw = csproj.read_text().
BumpUpdateRead ==
    /\ cmd = "bump" /\ pc = "update"
    /\ raw' = content
    /\ pc' = "write"
    /\ UNCHANGED <<env, foreign, argv, sys_argv, content, backups, clock, status, located,
                   current_version, target_version, backup, matched, hist>>

\* Step 6, second half: csproj.write_text(insert_or_replace_version(raw, target)).
BumpUpdateWrite ==
    /\ cmd = "bump" /\ pc = "write"
    /\ content' = insert_or_replace_version(raw, target_version)
    /\ wrote' = TRUE
    /\ pc' = "verify"
    /\ UNCHANGED <<env, foreign, argv, sys_argv, backups, clock, status, locals, before,
                   touched, warned, runs>>

\* Step 7: matched = verify(csproj, target_version).
BumpVerify ==
    /\ cmd = "bump" /\ pc = "verify"
    /\ matched' = verify(content, target_version)
    /\ pc' = "cleanup"
    /\ UNCHANGED <<env, foreign, argv, sys_argv, content, backups, clock, status, located,
                   current_version, target_version, backup, raw, hist>>

\* Steps 8 and 9: the backup is unlinked when verified, and main returns 0.
BumpCleanup ==
    /\ cmd = "bump" /\ pc = "cleanup"
    /\ \E unlinked \in (IF matched THEN BOOLEAN ELSE {FALSE}) :
          LET r == cleanup(backups, backup, matched, unlinked, content)
          IN  /\ backups' = r.backups
              /\ content' = r.content
              /\ warned' = r.warned
    /\ pc' = "returned"
    /\ status' = NoError
    /\ UNCHANGED <<env, foreign, argv, sys_argv, clock, locals, wrote, before, touched, runs>>

\* Another program rewrites the descriptor while bump runs (at most once a run).
ExternalWrite ==
    /\ cmd = "bump" /\ pc \in {"backup", "update", "write", "verify"}
    /\ ~touched
    /\ content' = DocOther
    /\ touched' = TRUE
    /\ UNCHANGED <<env, foreign, pc, argv, sys_argv, backups, clock, status, locals, wrote,
                   before, warned, runs>>

\* The command is run again on the same tree.
BumpAgain ==
    /\ cmd = "bump" /\ pc \in {"returned", "exited"}
    /\ runs < MaxRuns
    /\ runs' = runs + 1
    /\ argv' \in BumpArgvs
    /\ sys_argv' = argv'
    /\ pc' = "main"
    /\ before' = [content |-> content, backups |-> backups]
    /\ FreshRun
    /\ UNCHANGED <<env, foreign, content, backups, clock>>

Init ==
    /\ cmd = "bump"
    /\ pc = "main"
    /\ argv \in BumpArgvs
    /\ cwd = <<<<"w">>>>
    /\ entries \in BumpTrees
    /\ content \in BumpDocs
    /\ backups = {}
    /\ clock = 0
    /\ status = Running
    /\ base = <<>>
    /\ located = Found(<<>>)
    /\ current_version = None
    /\ target_version = <<>>
    /\ backup = NoBackup
    /\ raw = <<>>
    /\ matched = FALSE
    /\ version = <<>>
    /\ push = FALSE
    /\ remote = <<>>
    /\ solution_name = None
    /\ test_projects = <<>>
    /\ no_restore = FALSE
    /\ configuration = None
    /\ calls = <<>>
    /\ removed = 0
    /\ visited = <<>>
    /\ invoked = <<>>
    /\ wrote = FALSE
    /\ before = [content |-> content, backups |-> {}]
    /\ touched = FALSE
    /\ warned = ""
    /\ runs = 1
    /\ sys_argv = argv

Next ==
    \/ BumpMain
    \/ BumpResolve
    \/ BumpRead
    \/ BumpCompute
    \/ BumpValidate
    \/ BumpBackup
    \/ BumpUpdateRead
    \/ BumpUpdateWrite
    \/ BumpVerify
    \/ BumpCleanup
    \/ ExternalWrite
    \/ BumpAgain

Spec == Init /\ [][Next]_vars

(***************************************************************************)
(* tag.py: main                                                            *)
(***************************************************************************)

sTag == <<"t", "a", "g">>

sPush == <<"-", "-", "p", "u", "s", "h">>

sRemote == <<"-", "-", "r", "e", "m", "o", "t", "e">>

sOrigin == <<"o", "r", "i", "g", "i", "n">>

\* a.startswith('-').
IsFlag(a) == a # <<>> /\ a[1] = "-"

\* Variant of tag.parse_flags: push is set whatever the arguments are.
tag_parse_flags_AlwaysPush(args) ==
    LET idx == FirstPos(LAMBDA k : args[k] = sRemote, 1, Len(args))
    IN  IF idx = 0 THEN Ret([push |-> TRUE, remote |-> sOrigin])
        ELSE IF idx >= Len(args) \/ IsFlag(args[idx + 1])
        THEN Exit(error("--remote requires a remote name, e.g. --remote origin", <<>>))
        ELSE Ret([push |-> TRUE, remote |-> args[idx + 1]])

\* tag.parse_flags(argv): (push, remote) or the exit of error().  argv[k + 1]
\* here is argv[k] of the source.
tag_parse_flags(args) ==
    LET idx == FirstPos(LAMBDA k : args[k] = sRemote, 1, Len(args))
        got == \E k \in 2..Len(args) : args[k] = sPush
    IN  IF idx = 0 THEN Ret([push |-> got, remote |-> sOrigin])
        ELSE IF idx >= Len(args) \/ IsFlag(args[idx + 1])
        THEN Exit(error("--remote requires a remote name, e.g. --remote origin", <<>>))
        ELSE Ret([push |-> got, remote |-> args[idx + 1]])

\* Variant of the loop of tag.resolve_base_path: the value of --remote is
\* not skipped.
RECURSIVE Positional_TakeValue(_, _)
Positional_TakeValue(args, i) ==
    IF i > Len(args) THEN None
    ELSE IF IsFlag(args[i]) THEN Positional_TakeValue(args, i + 1)
    ELSE Some(args[i])

\* The loop of tag.resolve_base_path from position i on: the positional
\* argument, optional.
RECURSIVE Positional(_, _)
Positional(args, i) ==
    IF i > Len(args) THEN None
    ELSE IF args[i] = sRemote THEN Positional(args, i + 2)
    ELSE IF IsFlag(args[i]) THEN Positional(args, i + 1)
    ELSE Some(args[i])

\* tag.resolve_base_path(argv): the directory, or the exit of error().
resolve_base_path(fs, args) ==
    LET positional == Positional(args, 2)
    IN  IF positional.some
        THEN IF ~exists(fs, Path(positional.val)) \/ ~is_dir(fs, Path(positional.val))
             THEN Exit(error("Provided path does not exist or is not a directory: ",
                             positional.val))
             ELSE Ret(Path(positional.val))
        ELSE IF ~exists(fs, <<sSrc>>) \/ ~is_dir(fs, <<sSrc>>)
        THEN Exit(error("No path argument provided and 'src' directory was not found in current working directory.", <<>>))
        ELSE Ret(<<sSrc>>)

\* The tag command is run on the tree that a run of bump left.
TagRun ==
    /\ cmd = "bump" /\ pc = "returned" /\ status.code = 0
    /\ cmd' = "tag"
    /\ argv' = <<sTag>>
    /\ sys_argv' = argv'
    /\ pc' = "main"
    /\ status' = Running
    /\ UNCHANGED <<cwd, entries, base, foreign, content, backups, clock, locals, hist>>

\* Step 1: parse_flags(argv) and resolve_base_path(argv).
TagMain ==
    /\ cmd = "tag" /\ pc = "main"
    /\ LET f == tag_parse_flags(argv)
           b == resolve_base_path(entries, argv)
       IN  IF f.err.code # 0
           THEN pc' = "exited" /\ status' = f.err /\ UNCHANGED <<push, remote, base>>
           ELSE /\ push' = f.val.push
                /\ remote' = f.val.remote
                /\ IF b.err.code # 0
                   THEN pc' = "exited" /\ status' = b.err /\ UNCHANGED base
                   ELSE pc' = "locate" /\ base' = b.val /\ UNCHANGED status
    /\ UNCHANGED <<cmd, cwd, entries, argv, sys_argv, content, backups, clock, locals, hist,
                   version, solution_name, test_projects, extra>>

\* Step 2: find_single_csproj(base).
TagLocate ==
    /\ cmd = "tag" /\ pc = "locate"
    /\ located' = find_single_csproj(entries, base)
    /\ IF located'.err.code # 0
       THEN pc' = "exited" /\ status' = located'.err
       ELSE pc' = "version" /\ UNCHANGED status
    /\ UNCHANGED <<env, foreign, argv, sys_argv, content, backups, clock, current_version,
                   target_version, backup, raw, matched, hist>>

\* Step 3: read_version_from_csproj(csproj).
TagReadVersion ==
    /\ cmd = "tag" /\ pc = "version"
    /\ LET r == read_version_from_csproj(content)
       IN  IF r.err.code # 0
           THEN pc' = "exited" /\ status' = r.err /\ UNCHANGED version
           ELSE pc' = "create" /\ version' = r.val /\ UNCHANGED status
    /\ UNCHANGED <<env, push, remote, solution_name, test_projects, extra, argv, sys_argv,
                   content, backups, clock, locals, hist>>

(***************************************************************************)
(* build.py and test.py: the steps that find what to work on               *)
(***************************************************************************)

sBuild == <<"b", "u", "i", "l", "d">>

sSolution == <<"-", "-", "s", "o", "l", "u", "t", "i", "o", "n">>

sTest == <<"t", "e", "s", "t">>

sTests == <<"t", "e", "s", "t", "s">>

\* build(), steps 2 and 3: the target path exists, and pick_solution.
BuildPick ==
    /\ cmd = "build" /\ pc = "pick"
    /\ IF ~exists(entries, base)
       THEN /\ pc' = "exited"
            /\ status' = error("Target path not found: ", <<>>)
            /\ UNCHANGED located
       ELSE /\ located' = pick_solution(entries, base, solution_name)
            /\ IF located'.err.code # 0
               THEN pc' = "exited" /\ status' = located'.err
               ELSE pc' = "restore" /\ UNCHANGED status
    /\ UNCHANGED <<env, foreign, argv, sys_argv, content, backups, clock, current_version,
                   target_version, backup, raw, matched, hist>>

sDocs == <<"d", "o", "c", "s">>

\* test.parse_args(): argparse with the one optional positional 'path', on
\* sys.argv without its first element.  -h or --help prints the help and
\* exits with 0; another flag, or a second positional, is an error of
\* argparse, which exits with 2.  The value is args.path, optional.
test_parse_args(args) ==
    LET tokens == IF args = <<>> THEN <<>> ELSE Tail(args)
        positionals == SelectSeq(tokens, LAMBDA a : ~IsFlag(a))
    IN  IF \E i \in 1..Len(tokens) :
               tokens[i] \in {<<"-", "h">>, <<"-", "-", "h", "e", "l", "p">>}
        THEN Exit([code |-> 0, msg |-> "help", arg |-> <<>>])
        ELSE IF Len(positionals) # Len(tokens) \/ Len(positionals) > 1
        THEN Exit([code |-> 2, msg |-> "unrecognized arguments: ", arg |-> <<>>])
        ELSE IF positionals = <<>> THEN Ret(None)
        ELSE Ret(Some(positionals[1]))

\* test.main, step 1: the directory searched for test projects (search_base)
\* and the tree afterwards.  With a path that is not empty it is the path,
\* which must exist; without one it is 'tests' under the working directory,
\* which must exist, and 'docs' is made beside it.
test_resolve_paths(fs, path) ==
    IF path.some /\ path.val # <<>>
    THEN IF ~exists(fs, Path(path.val))
         THEN [err |-> error("Provided path does not exist: ", path.val),
               val |-> <<>>, fs |-> fs]
         ELSE [err |-> NoError, val |-> Path(path.val), fs |-> fs]
    ELSE IF ~exists(fs, <<sTests>>)
    THEN [err |-> error("Could not find a 'tests' directory relative to current working directory.", <<>>),
          val |-> <<>>, fs |-> fs]
    ELSE IF is_file(fs, <<sDocs>>)
    THEN [err |-> error("FileExistsError", <<>>), val |-> <<>>, fs |-> fs]
    ELSE [err |-> NoError, val |-> <<sTests>>,
          fs |-> IF exists(fs, <<sDocs>>) THEN fs
                 ELSE Append(fs, [parts |-> <<sDocs>>, is_file |-> FALSE])]

\* test.main, step 3: collect_test_projects(search_base); without projects
\* the command returns 0.
TestDiscover ==
    /\ cmd = "test" /\ pc = "discover"
    /\ test_projects' = collect_test_projects(entries, cwd, base)
    /\ IF test_projects' = <<>>
       THEN pc' = "returned" /\ status' = NoError
       ELSE pc' = "run" /\ UNCHANGED status
    /\ UNCHANGED <<env, version, push, remote, solution_name, extra, argv, sys_argv, content,
                   backups, clock, locals, hist>>

(***************************************************************************)
(* build.py and clean.py: flags and the target directory                   *)
(***************************************************************************)

sConfiguration ==
    <<"-", "-", "c", "o", "n", "f", "i", "g", "u", "r", "a", "t", "i", "o", "n">>

sNoRestore == <<"-", "-", "n", "o", "-", "r", "e", "s", "t", "o", "r", "e">>

sNoRestoreCamel == <<"-", "-", "n", "o", "R", "e", "s", "t", "o", "r", "e">>

sDebug == <<"D", "e", "b", "u", "g">>

sRelease == <<"R", "e", "l", "e", "a", "s", "e">>

sClean == <<"c", "l", "e", "a", "n">>

\* x in argv.
In(args, x) == \E k \in 1..Len(args) : args[k] = x

\* argv.index(x), 1-based.
IndexOf(args, x) == FirstPos(LAMBDA k : args[k] = x, 1, Len(args))

\* The value that follows the flag in argv is missing or is itself a flag.
NoValue(args, flag) ==
    IndexOf(args, flag) >= Len(args) \/ IsFlag(args[IndexOf(args, flag) + 1])

\* build.parse_flags(argv): the flags, or the exit of error().
build_parse_flags(args) ==
    LET no == In(args, sNoRestore) \/ In(args, sNoRestoreCamel)
        sol == IF In(args, sSolution)
               THEN Some(args[IndexOf(args, sSolution) + 1]) ELSE None
        cfg == IF In(args, sConfiguration)
               THEN Some(args[IndexOf(args, sConfiguration) + 1]) ELSE None
    IN  IF In(args, sSolution) /\ NoValue(args, sSolution)
        THEN Exit(error("--solution requires a solution file name, e.g. --solution ArturRios.Output.sln", <<>>))
        ELSE IF In(args, sConfiguration) /\ NoValue(args, sConfiguration)
        THEN Exit(error("--configuration requires a value: Debug or Release", <<>>))
        ELSE IF cfg.some /\ cfg.val \notin {sDebug, sRelease}
        THEN Exit(error("--configuration must be either 'Debug' or 'Release'", <<>>))
        ELSE Ret([no_restore |-> no, solution |-> sol, configuration |-> cfg])

\* The loop of build.resolve_target_dir from position i on, skip telling
\* that skip_next_for is set: the first positional argument, optional.
RECURSIVE BuildPositional(_, _, _)
BuildPositional(args, i, skip) ==
    IF i > Len(args) THEN None
    ELSE IF skip THEN BuildPositional(args, i + 1, FALSE)
    ELSE IF args[i] \in {sSolution, sConfiguration}
    THEN BuildPositional(args, i + 1, TRUE)
    ELSE IF IsFlag(args[i]) THEN BuildPositional(args, i + 1, FALSE)
    ELSE IF lower(args[i]) = sBuild THEN BuildPositional(args, i + 1, FALSE)
    ELSE Some(args[i])

\* Variant of build.resolve_target_dir: a missing explicit path falls back
\* to the default directory.
build_resolve_target_dir_Fallback(fs, args) ==
    LET a == BuildPositional(args, 2, FALSE)
    IN  IF a.some /\ exists(fs, Path(a.val)) THEN Ret(Path(a.val))
        ELSE IF ~exists(fs, <<sSrc>>)
        THEN Exit(error("No 'src' folder found in the current working directory.", <<>>))
        ELSE Ret(<<sSrc>>)

\* build.resolve_target_dir(argv): the target, or the exit of error().
build_resolve_target_dir(fs, args) ==
    LET a == BuildPositional(args, 2, FALSE)
    IN  IF a.some
        THEN IF ~exists(fs, Path(a.val))
             THEN Exit(error("Target path not found: ", a.val))
             ELSE Ret(Path(a.val))
        ELSE IF ~exists(fs, <<sSrc>>)
        THEN Exit(error("No 'src' folder found in the current working directory.", <<>>))
        ELSE Ret(<<sSrc>>)

\* t.strip(chars) for a set of characters.
RECURSIVE StripOf(_, _)
StripOf(t, chars) ==
    IF t # <<>> /\ t[1] \in chars THEN StripOf(Tail(t), chars)
    ELSE IF t # <<>> /\ t[Len(t)] \in chars THEN StripOf(SubSeq(t, 1, Len(t) - 1), chars)
    ELSE t

\* argv[1].strip().strip('"').strip("'") of clean.resolve_target_dir.
Unquote(a) == StripOf(StripOf(strip(a), {"\""}), {"'"})

\* clean.resolve_target_dir(argv): the target, or the exit of error().
clean_resolve_target_dir(fs, args) ==
    IF Len(args) > 1
    THEN LET path == IF Unquote(args[2]) \in {<<".">>, <<".", "/">>}
                     THEN <<>> ELSE Path(Unquote(args[2]))
         IN  IF ~exists(fs, path) \/ ~is_dir(fs, path)
             THEN Exit(error("Provided path does not exist or is not a directory: ",
                             Unquote(args[2])))
             ELSE Ret(path)
    ELSE IF ~exists(fs, <<sSrc>>) \/ ~is_dir(fs, <<sSrc>>)
    THEN Exit(error("No path argument provided and 'src' directory was not found in current working directory.", <<>>))
    ELSE Ret(<<sSrc>>)

\* build.main: parse_flags(argv), resolve_target_dir(argv), and build() up to
\* its step 2.
BuildMain ==
    /\ cmd = "build" /\ pc = "main"
    /\ LET f == build_parse_flags(argv)
           t == build_resolve_target_dir(entries, argv)
       IN  IF f.err.code # 0
           THEN /\ pc' = "exited" /\ status' = f.err
                /\ UNCHANGED <<no_restore, solution_name, configuration, base>>
           ELSE /\ no_restore' = f.val.no_restore
                /\ solution_name' = f.val.solution
                /\ configuration' = f.val.configuration
                /\ IF t.err.code # 0
                   THEN pc' = "exited" /\ status' = t.err /\ UNCHANGED base
                   ELSE pc' = "pick" /\ base' = t.val /\ UNCHANGED status
    /\ UNCHANGED <<cmd, cwd, entries, argv, sys_argv, content, backups, clock, locals, hist,
                   version, push, remote, test_projects, calls, removed, visited,
                   invoked>>

\* clean.main: resolve_target_dir(argv).
CleanMain ==
    /\ cmd = "clean" /\ pc = "main"
    /\ LET t == clean_resolve_target_dir(entries, argv)
       IN  IF t.err.code # 0
           THEN pc' = "exited" /\ status' = t.err /\ UNCHANGED base
           ELSE pc' = "scan" /\ base' = t.val /\ UNCHANGED status
    /\ UNCHANGED <<cmd, cwd, entries, foreign, argv, sys_argv, content, backups, clock,
                   locals, hist>>

(***************************************************************************)
(* clean.py: the scan that removes bin and obj                             *)
(***************************************************************************)

sBin == <<"b", "i", "n">>

sObj == <<"o", "b", "j">>

\* Path.parent.
Parent(p) == SubSeq(p, 1, Len(p) - 1)

\* The children of directory d, each once, in the order the directory lists
\* them.
iterdir(fs, d) ==
    LET under == SelectSeq(fs, LAMBDA e : IsPrefix(d, e.parts) /\ Len(e.parts) > Len(d))
        child(k) == SubSeq(under[k].parts, 1, Len(d) + 1)
        firsts == SelectSeq([k \in 1..Len(under) |-> k],
                            LAMBDA k : \A m \in 1..(k - 1) : child(m) # child(k))
    IN  [i \in 1..Len(firsts) |-> child(firsts[i])]

\* shutil.rmtree(p, ignore_errors=True) when the entries in stuck cannot be
\* deleted: they stay, with the directories that lead to them, and nothing is
\* raised.  The parent of p stays, empty if need be.
rmtree(fs, p, stuck) ==
    LET kept == SelectSeq(fs, LAMBDA e : ~IsPrefix(p, e.parts) \/ e.parts \in stuck)
    IN  IF exists(kept, Parent(p)) THEN kept
        ELSE Append(kept, [parts |-> Parent(p), is_file |-> FALSE])

\* clean.remove_dir_tree(p): the tree after it.  Nothing tells the caller
\* whether p is gone.
remove_dir_tree(fs, p, stuck) ==
    IF is_dir(fs, p) THEN rmtree(fs, p, stuck) ELSE fs

\* The body of the loop of clean() for the paths ps that rglob yields in
\* turn.
RECURSIVE Visit(_, _, _)
Visit(st, ps, stuck) ==
    IF ps = <<>> THEN st
    ELSE IF is_dir(st.fs, Head(ps)) /\ name(Head(ps)) \in {sBin, sObj}
    THEN Visit([fs |-> remove_dir_tree(st.fs, Head(ps), stuck),
                removed |-> st.removed + 1,
                visited |-> Append(st.visited, Head(ps))],
               Tail(ps), stuck)
    ELSE Visit(st, Tail(ps), stuck)

\* target_path.rglob('*') consumed by the loop: the children of d are
\* yielded and handled, then d is listed again and each directory still in
\* it is walked the same way.
RECURSIVE Walk(_, _, _)
RECURSIVE WalkEach(_, _, _)
Walk(st, d, stuck) ==
    LET after == Visit(st, iterdir(st.fs, d), stuck)
    IN  WalkEach(after,
                 SelectSeq(iterdir(after.fs, d), LAMBDA c : is_dir(after.fs, c)),
                 stuck)

WalkEach(st, ds, stuck) ==
    IF ds = <<>> THEN st
    ELSE WalkEach(Walk(st, Head(ds), stuck), Tail(ds), stuck)

\* The most entries that cannot be deleted during one scan.
MaxStuck == 2

\* clean(target_path): steps 1 to 3.
CleanScan ==
    /\ cmd = "clean" /\ pc = "scan"
    /\ IF ~exists(entries, base) \/ ~is_dir(entries, base)
       THEN /\ pc' = "exited"
            /\ status' = error("Target directory not found: ", <<>>)
            /\ UNCHANGED <<entries, removed, visited>>
       ELSE \E stuck \in SUBSET {entries[k].parts : k \in 1..Len(entries)} :
               /\ Cardinality(stuck) <= MaxStuck
               /\ LET st == Walk([fs |-> entries, removed |-> 0, visited |-> <<>>],
                                 base, stuck)
                  IN  /\ entries' = st.fs
                      /\ removed' = st.removed
                      /\ visited' = st.visited
               /\ pc' = "returned"
               /\ status' = NoError
    /\ UNCHANGED <<cmd, cwd, base, argv, sys_argv, content, backups, clock, locals, hist,
                   version, push, remote, solution_name, test_projects,
                   no_restore, configuration, calls, invoked>>

\* clean is run once more on the tree that the last run left.
CleanAgain ==
    /\ cmd = "clean" /\ pc = "returned"
    /\ runs < MaxRuns
    /\ runs' = runs + 1
    /\ before' = [content |-> content, backups |-> backups, entries |-> entries]
    /\ pc' = "main"
    /\ status' = Running
    /\ removed' = 0 /\ visited' = <<>>
    /\ UNCHANGED <<env, argv, sys_argv, content, backups, clock, locals, wrote, touched,
                   warned, version, push, remote, solution_name, test_projects,
                   no_restore, configuration, calls, invoked>>

(***************************************************************************)
(* build.py, test.py and tag.py: the external processes                    *)
(***************************************************************************)

\* The outcome of subprocess.run when the program cannot be started.
NoLaunch == -1

\* The largest exit code of an external process.
MaxCode == 1

\* What subprocess.run can end with: the exit code of the process, or
\* NoLaunch.
Outcomes == {NoLaunch} \cup 0..MaxCode

\* One entry of the log of external processes.
Call(prog, target, opt, flags, code) ==
    [prog |-> prog, target |-> target, opt |-> opt, flags |-> flags, code |-> code]

\* The number of entries of the log for prog.
Done(prog) == Cardinality({i \in 1..Len(calls) : calls[i].prog = prog})

\* Where the command stands after a step that went well: next, with the
\* status of a return when next is the return.
Go(next) == [pc |-> next, status |-> IF next = "returned" THEN NoError ELSE status]

\* The exception that nothing catches when the program cannot be started.
Uncaught == [pc |-> "exited", status |-> error("FileNotFoundError", <<>>)]

\* Variant of build.run(cmd): the exit code of the process is ignored.
build_run_Continue(code, next) ==
    IF code = NoLaunch THEN Uncaught ELSE Go(next)

\* build.run(cmd) on a process that ended with code: where the command
\* stands afterwards.
build_run(code, next) ==
    IF code = NoLaunch THEN Uncaught
    ELSE IF code # 0
    THEN [pc |-> "exited",
          status |-> error("Command failed with exit code ", StrOf(code))]
    ELSE Go(next)

\* test.run(cmd).
test_run(code, next) ==
    IF code = NoLaunch THEN Uncaught
    ELSE IF code # 0
    THEN [pc |-> "exited",
          status |-> error("Command failed with exit code : ", StrOf(code))]
    ELSE Go(next)

\* tag.run(cmd).
tag_run(code, next) ==
    IF code = NoLaunch THEN Uncaught
    ELSE IF code # 0
    THEN [pc |-> "exited",
          status |-> error("Command failed with exit code ", StrOf(code))]
    ELSE Go(next)

\* What the steps that run a process leave alone.
besides_calls ==
    <<env, argv, sys_argv, content, backups, clock, locals, hist, version, push, remote,
      solution_name, test_projects, no_restore, configuration, removed, visited,
      invoked>>

\* build(), step 4: dotnet restore, unless --no-restore.
BuildRestore ==
    /\ cmd = "build" /\ pc = "restore"
    /\ IF no_restore
       THEN pc' = "build" /\ UNCHANGED <<status, calls>>
       ELSE \E code \in Outcomes :
               /\ calls' = Append(calls, Call("dotnet restore", located.path, <<>>,
                                              <<>>, code))
               /\ pc' = build_run(code, "build").pc
               /\ status' = build_run(code, "build").status
    /\ UNCHANGED besides_calls

\* Variant of the list of configurations: Release comes first.
Configs_ReleaseFirst ==
    IF configuration.some THEN <<configuration.val>> ELSE <<sRelease, sDebug>>

\* [configuration] if configuration else ['Debug', 'Release'].
Configs == IF configuration.some THEN <<configuration.val>> ELSE <<sDebug, sRelease>>

\* build(), step 4: one turn of the loop over the configurations.
BuildBuild ==
    /\ cmd = "build" /\ pc = "build"
    /\ \E code \in Outcomes :
          LET i == Done("dotnet build") + 1
              r == build_run(code, IF i = Len(Configs) THEN "returned" ELSE "build")
          IN  /\ calls' = Append(calls,
                     Call("dotnet build", located.path, Configs[i],
                          IF no_restore THEN <<sNoRestore>> ELSE <<>>, code))
              /\ pc' = r.pc
              /\ status' = r.status
    /\ UNCHANGED besides_calls

\* test.main, step 4: one turn of the loop over the test projects.
TestRun ==
    /\ cmd = "test" /\ pc = "run"
    /\ \E code \in Outcomes :
          LET i == Done("dotnet test") + 1
              r == test_run(code, IF i = Len(test_projects) THEN "report" ELSE "run")
          IN  /\ calls' = Append(calls,
                     Call("dotnet test", test_projects[i].parts, <<>>, <<>>, code))
              /\ pc' = r.pc
              /\ status' = r.status
    /\ UNCHANGED besides_calls

\* test.main, steps 5 and 6: reportgenerator.
TestReport ==
    /\ cmd = "test" /\ pc = "report"
    /\ \E code \in Outcomes :
          /\ calls' = Append(calls, Call("reportgenerator", base, <<>>, <<>>, code))
          /\ pc' = test_run(code, "returned").pc
          /\ status' = test_run(code, "returned").status
    /\ UNCHANGED besides_calls

\* tag_name = f"v{version}".
tag_name == <<"v">> \o version

\* Variant of the check of create_git_tag: the exit of error() is swallowed
\* like the other exceptions.
tag_exists_check_Swallow(code) == Go("tag")

\* create_git_tag, the check that the tag exists: git rev-parse --verify
\* ended with code.  error() exits; everything else, a program that cannot be
\* started too, goes on to the creation.
tag_exists_check(code) ==
    IF code = 0
    THEN [pc |-> "exited", status |-> error("Tag already exists.", tag_name)]
    ELSE Go("tag")

\* create_git_tag: git rev-parse --verify tag_name.
TagVerify ==
    /\ cmd = "tag" /\ pc = "create"
    /\ \E code \in Outcomes :
          /\ calls' = Append(calls, Call("git rev-parse", tag_name, <<>>, <<>>, code))
          /\ pc' = tag_exists_check(code).pc
          /\ status' = tag_exists_check(code).status
    /\ UNCHANGED besides_calls

\* create_git_tag: git tag -a tag_name; then main, step 5, without --push.
TagCreate ==
    /\ cmd = "tag" /\ pc = "tag"
    /\ \E code \in Outcomes :
          LET r == tag_run(code, IF push THEN "push" ELSE "returned")
          IN  /\ calls' = Append(calls, Call("git tag", tag_name, <<>>, <<>>, code))
              /\ pc' = r.pc
              /\ status' = r.status
    /\ UNCHANGED besides_calls

\* main, step 5: push_git_tag(tag_name, remote).
TagPush ==
    /\ cmd = "tag" /\ pc = "push"
    /\ \E code \in Outcomes :
          /\ calls' = Append(calls, Call("git push", tag_name, remote, <<>>, code))
          /\ pc' = tag_run(code, "returned").pc
          /\ status' = tag_run(code, "returned").status
    /\ UNCHANGED besides_calls

(***************************************************************************)
(* cli.py: the dispatcher                                                  *)
(***************************************************************************)

sInitLib == <<"i", "n", "i", "t", "-", "l", "i", "b">>

sInitMin == <<"i", "n", "i", "t", "-", "m", "i", "n">>

sInitProj == <<"i", "n", "i", "t", "-", "p", "r", "o", "j">>

sHelp == <<"h", "e", "l", "p">>

HelpWords == {<<"-", "h">>, <<"-", "-">> \o sHelp, sHelp}

\* Variant of the dispatch of cli.main: init-min is served by init_lib.
Dispatch_Swapped(args) ==
    LET rest == Tail(args)
    IN  IF args[1] = sBuild THEN Some([module |-> "build", args |-> Some(<<sBuild>> \o rest)])
        ELSE IF args[1] = sClean THEN Some([module |-> "clean", args |-> Some(<<sClean>> \o rest)])
        ELSE IF args[1] = sTest THEN Some([module |-> "test", args |-> None])
        ELSE IF args[1] = sBump THEN Some([module |-> "bump", args |-> Some(<<sBump>> \o rest)])
        ELSE IF args[1] = sTag THEN Some([module |-> "tag", args |-> Some(<<sTag>> \o rest)])
        ELSE IF args[1] \in {sInitLib, sInitMin}
        THEN Some([module |-> "init_lib", args |-> Some(<<sInitLib>> \o rest)])
        ELSE IF args[1] = sInitProj
        THEN Some([module |-> "init_proj", args |-> Some(<<sInitProj>> \o rest)])
        ELSE None

\* The chain of tests on cmd in cli.main: the module whose main is called
\* and the arguments it is given (none for test), or nothing for a name that
\* is not known.
Dispatch(args) ==
    LET rest == Tail(args)
    IN  IF args[1] = sBuild THEN Some([module |-> "build", args |-> Some(<<sBuild>> \o rest)])
        ELSE IF args[1] = sClean THEN Some([module |-> "clean", args |-> Some(<<sClean>> \o rest)])
        ELSE IF args[1] = sTest THEN Some([module |-> "test", args |-> None])
        ELSE IF args[1] = sBump THEN Some([module |-> "bump", args |-> Some(<<sBump>> \o rest)])
        ELSE IF args[1] = sTag THEN Some([module |-> "tag", args |-> Some(<<sTag>> \o rest)])
        ELSE IF args[1] = sInitLib
        THEN Some([module |-> "init_lib", args |-> Some(<<sInitLib>> \o rest)])
        ELSE IF args[1] = sInitMin
        THEN Some([module |-> "init_min", args |-> Some(<<sInitMin>> \o rest)])
        ELSE IF args[1] = sInitProj
        THEN Some([module |-> "init_proj", args |-> Some(<<sInitProj>> \o rest)])
        ELSE None

\* What the steps of the dispatcher leave alone.
besides_invoked ==
    <<env, argv, sys_argv, content, backups, clock, locals, hist, version, push, remote,
      solution_name, test_projects, no_restore, configuration, calls, removed,
      visited>>

\* cli.main up to the call of the main of a command: the usage and 0 without
\* arguments or for a help word, the usage and 1 for an unknown name.
CliMain ==
    /\ cmd = "cli" /\ pc = "main"
    /\ IF argv = <<>> \/ argv[1] \in HelpWords
       THEN pc' = "returned" /\ status' = NoError /\ UNCHANGED invoked
       ELSE IF Dispatch(argv).some
       THEN /\ invoked' = Append(invoked, [module |-> Dispatch(argv).val.module,
                                           args |-> Dispatch(argv).val.args,
                                           result |-> Running])
            /\ pc' = "running"
            /\ UNCHANGED status
       ELSE /\ pc' = "returned"
            /\ status' = [code |-> 1, msg |-> "Unknown command: ", arg |-> argv[1]]
            /\ UNCHANGED invoked
    /\ UNCHANGED besides_invoked

\* test.main() called by cli.main: parse_args() on sys.argv, and step 1.
\* The exits of argparse and of error() end the command.
TestMain ==
    /\ cmd = "cli" /\ pc = "running"
    /\ invoked[Len(invoked)].module = "test"
    /\ LET a == test_parse_args(sys_argv)
           r == test_resolve_paths(entries, a.val)
           e == IF a.err # NoError THEN a.err ELSE r.err
       IN  IF e # NoError
           THEN /\ invoked' = [invoked EXCEPT ![Len(invoked)].result =
                                   [code |-> e.code, msg |-> "exit", arg |-> <<>>]]
                /\ pc' = "ended"
                /\ UNCHANGED <<base, entries>>
           ELSE /\ base' = r.val
                /\ entries' = r.fs
                /\ pc' = "resolved"
                /\ UNCHANGED invoked
    /\ UNCHANGED <<cmd, cwd, status, argv, sys_argv, content, backups, clock, locals,
                   hist, version, push, remote, solution_name, test_projects,
                   no_restore, configuration, calls, removed, visited>>

\* The main of the command ends: it returns a status, or error() exits.  For
\* test this is what follows its step 1.
CommandEnds ==
    /\ cmd = "cli"
    /\ \/ pc = "running" /\ invoked[Len(invoked)].module # "test"
       \/ pc = "resolved"
    /\ \E r \in {[code |-> c, msg |-> "return", arg |-> <<>>] : c \in 0..MaxCode}
               \cup {error("exit", <<>>)} :
          invoked' = [invoked EXCEPT ![Len(invoked)].result = r]
    /\ pc' = "ended"
    /\ UNCHANGED <<status, besides_invoked>>

\* return <module>.main(...): the status of the command is the status of
\* cli.main, and an exit of the command goes through.
cli_return(result) ==
    IF result.msg = "exit" THEN [pc |-> "exited", status |-> result]
    ELSE [pc |-> "returned", status |-> [code |-> result.code, msg |-> "", arg |-> <<>>]]

CliReturn ==
    /\ cmd = "cli" /\ pc = "ended"
    /\ pc' = cli_return(invoked[Len(invoked)].result).pc
    /\ status' = cli_return(invoked[Len(invoked)].result).status
    /\ UNCHANGED <<invoked, besides_invoked>>

(***************************************************************************)
(* The specifications of the parts                                         *)
(***************************************************************************)

\* The sequences over S of length up to n.
Seqs(S, n) == UNION {[1..k -> S] : k \in 0..n}

RECURSIVE Flatten(_)
Flatten(ss) == IF ss = <<>> THEN <<>> ELSE Head(ss) \o Flatten(Tail(ss))

\* The entries of universe at the positions in S, in its order.
Pick(universe, S) ==
    LET F[k \in 0..Len(universe)] ==
            IF k = 0 THEN <<>>
            ELSE IF k \in S THEN Append(F[k - 1], universe[k]) ELSE F[k - 1]
    IN  F[Len(universe)]

Reverse(ss) == [k \in 1..Len(ss) |-> ss[Len(ss) + 1 - k]]

\* The locals of bump.main, of the other commands, and the history, before
\* anything ran.
NoLocals ==
    /\ located = Found(<<>>)
    /\ current_version = None
    /\ target_version = <<>>
    /\ backup = NoBackup
    /\ raw = <<>>
    /\ matched = FALSE

NoExtra ==
    /\ no_restore = FALSE
    /\ configuration = None
    /\ calls = <<>>
    /\ removed = 0
    /\ visited = <<>>
    /\ invoked = <<>>

NoForeign ==
    /\ version = <<>>
    /\ push = FALSE
    /\ remote = <<>>
    /\ solution_name = None
    /\ test_projects = <<>>
    /\ NoExtra

NoHist ==
    /\ wrote = FALSE
    /\ before = [content |-> content, backups |-> backups]
    /\ touched = FALSE
    /\ warned = ""
    /\ runs = 1

\* The longest version argument.
MaxLen == 7

\* The longest run of digits in a component of the current version.
MaxDigits == 2

\* The most elements in the body of a descriptor.
MaxItems == 3

\* The most entries of a tree.
MaxEntries == 6

VersionArgs ==
    Seqs({"1", ".", " "}, MaxLen)
    \cup {Str_2_0_0, <<"v", "1", ".", "1", ".", "1">>, <<"1", ".", "1", ".", "x">>,
          <<"1", ".", "1", ".", "1", "\n">>, <<"\t", "1", ".", "1", ".", "1">>}

DigitRuns == Seqs({"0", "9"}, MaxDigits) \ {<<>>}

CurrentVersions ==
    {None} \cup {Some(m \o <<".">> \o n \o <<".">> \o q) : m \in DigitRuns,
                                                         n \in DigitRuns,
                                                         q \in DigitRuns}

ComputeArgs ==
    {MAJOR, MINOR, PATCH, Str_2_0_0, <<"-", "-", "M", "a", "j", "o", "r">>, <<"x">>}

Element(n, text) == Tag(n) \o text \o CloseTag(n)

\* What the body of a descriptor is made of.
Items ==
    {Element(nVersion, Str_1_2_9),
     Element(nVersion, <<"1", ".", "0", ".", "0">>),
     Element(nVersion, <<"1", ".", "0">>),
     Element(nPackageId, <<"F">>),
     Element(nLangVersion, <<"1", "2">>),
     <<"\n", " ", " ">>}

\* The body as it is, in a project, in a property group of a project, and
\* the same with the project in a namespace.
Wraps == {"none", "project", "group", "nsgroup"}

Wrap(w, body) ==
    IF w = "none" THEN body
    ELSE IF w = "project" THEN Element(nProject, body)
    ELSE IF w = "group" THEN Element(nProject, Element(nPropertyGroup, body))
    ELSE <<"<">> \o nProject \o NsAttr \o <<">">>
         \o Element(nPropertyGroup, body) \o CloseTag(nProject)

Docs == {Wrap(w, Flatten(items)) : w \in Wraps, items \in Seqs(Items, MaxItems)}

InsertVersions == {Str_2_0_0, <<"1", "1">>, <<>>}

\* The items of the descriptors given to the two readers, beside those
\* above: a Version element whose text is one space.
ReadItems == Items \cup {Element(nVersion, <<" ">>)}

\* A project with one property group for each item.
Groups(items) ==
    Element(nProject, Flatten([i \in 1..Len(items) |-> Element(nPropertyGroup, items[i])]))

ReadDocs == Docs \cup {Groups(items) : items \in Seqs(ReadItems, MaxItems)}

\* A function of bump.py called on its own: validate_version(target_version).
CallValidate ==
    /\ cmd = "validate_version" /\ pc = "call"
    /\ LET e == validate_version(target_version)
       IN  IF e.code # 0
           THEN pc' = "exited" /\ status' = e
           ELSE pc' = "returned" /\ status' = NoError
    /\ UNCHANGED <<env, foreign, argv, sys_argv, content, backups, clock, locals, hist>>

\* compute_target(argv[2], current_version).
CallCompute ==
    /\ cmd = "compute_target" /\ pc = "call"
    /\ LET r == compute_target(argv[2], current_version)
       IN  IF r.err.code # 0
           THEN pc' = "exited" /\ status' = r.err /\ UNCHANGED target_version
           ELSE pc' = "returned" /\ status' = NoError /\ target_version' = r.val
    /\ UNCHANGED <<env, foreign, argv, sys_argv, content, backups, clock, located,
                   current_version, backup, raw, matched, hist>>

\* insert_or_replace_version(raw, target_version).
CallInsert ==
    /\ cmd = "insert_or_replace_version" /\ pc = "call"
    /\ content' = insert_or_replace_version(raw, target_version)
    /\ pc' = "returned"
    /\ status' = NoError
    /\ UNCHANGED <<env, foreign, argv, sys_argv, backups, clock, locals, hist>>

\* insert_or_replace_version applied to its own result, with the same
\* version; before.content keeps the result of the first application.
CallInsertAgain ==
    /\ cmd = "insert_or_replace_version" /\ pc = "returned"
    /\ before' = [content |-> content, backups |-> backups]
    /\ content' = insert_or_replace_version(content, target_version)
    /\ pc' = "twice"
    /\ UNCHANGED <<env, foreign, argv, sys_argv, backups, clock, status, locals, wrote,
                   touched, warned, runs>>

\* read_current_version(csproj) of bump.py on the text of the descriptor.
CallReadCurrent ==
    /\ cmd = "read_current_version" /\ pc = "call"
    /\ current_version' = read_current_version(content)
    /\ pc' = "returned"
    /\ status' = NoError
    /\ UNCHANGED <<env, foreign, argv, sys_argv, content, backups, clock, located,
                   target_version, backup, raw, matched, hist>>

\* read_version_from_csproj(csproj) of tag.py on the text of the descriptor.
CallReadVersion ==
    /\ cmd = "read_version_from_csproj" /\ pc = "call"
    /\ LET r == read_version_from_csproj(content)
       IN  IF r.err.code # 0
           THEN pc' = "exited" /\ status' = r.err /\ UNCHANGED version
           ELSE pc' = "returned" /\ status' = NoError /\ version' = r.val
    /\ UNCHANGED <<env, push, remote, solution_name, test_projects, extra, argv, sys_argv,
                   content, backups, clock, locals, hist>>

InitCalls ==
    /\ pc = "call"
    /\ cwd = <<<<"w">>>> /\ entries = <<fA>> /\ base = <<>>
    /\ backups = {} /\ clock = 0 /\ status = Running
    /\ located = Found(<<>>) /\ backup = NoBackup /\ matched = FALSE
    /\ \/ /\ cmd = "validate_version"
          /\ target_version \in VersionArgs
          /\ argv = <<sBump>> /\ current_version = None
          /\ raw = <<>> /\ content = DocBare
       \/ /\ cmd = "compute_target"
          /\ argv \in {<<sBump, a>> : a \in ComputeArgs}
          /\ current_version \in CurrentVersions
          /\ target_version = <<>>
          /\ raw = <<>> /\ content = DocBare
       \/ /\ cmd \in {"read_current_version", "read_version_from_csproj"}
          /\ content \in ReadDocs
          /\ argv = <<sBump>> /\ current_version = None
          /\ target_version = <<>> /\ raw = <<>>
       \/ /\ cmd = "insert_or_replace_version"
          /\ raw \in Docs
          /\ content = raw
          /\ target_version \in InsertVersions
          /\ argv = <<sBump>> /\ current_version = None
    /\ NoForeign /\ NoHist
    /\ sys_argv = argv

NextCalls ==
    \/ CallValidate
    \/ CallCompute
    \/ CallInsert
    \/ CallInsertAgain
    \/ CallReadCurrent
    \/ CallReadVersion

SpecCalls == InitCalls /\ [][NextCalls]_vars

\* bump.main from step 6 on, the backup made (step 5), and tag after it.
InitTransform ==
    /\ cmd = "bump" /\ pc = "update"
    /\ cwd = <<<<"w">>>> /\ entries = <<fA>> /\ base = <<>>
    /\ content \in Docs
    /\ target_version = Str_2_0_0
    /\ argv = <<sBump, target_version>>
    /\ located = Found(fA.parts)
    /\ current_version = read_current_version(content)
    /\ clock = 0
    /\ backup = [some |-> TRUE, ts |-> 0]
    /\ backups = PutBackup({}, 0, content)
    /\ status = Running
    /\ raw = <<>> /\ matched = FALSE
    /\ NoForeign
    /\ wrote = FALSE /\ touched = FALSE /\ warned = "" /\ runs = 1
    /\ before = [content |-> content, backups |-> {}]
    /\ sys_argv = argv

NextTransform ==
    \/ BumpUpdateRead
    \/ BumpUpdateWrite
    \/ BumpVerify
    \/ BumpCleanup
    \/ TagRun
    \/ TagMain
    \/ TagLocate
    \/ TagReadVersion

SpecTransform == InitTransform /\ [][NextTransform]_vars

File(parts) == [parts |-> parts, is_file |-> TRUE]

Dir(parts) == [parts |-> parts, is_file |-> FALSE]

Named(n, ext) == n \o ext

\* What a tree under src may hold: descriptors at three depths, a directory
\* named like a descriptor, solutions.
LocateUniverse ==
    << File(<<sSrc, Named(<<"A">>, csprojExt)>>),
       File(<<sSrc, <<"x">>, Named(<<"C">>, csprojExt)>>),
       File(<<sSrc, Named(<<"B">>, csprojExt)>>),
       File(<<sSrc, Named(<<"T">>, slnExt)>>),
       File(<<sSrc, <<"x">>, Named(<<"D">>, csprojExt)>>),
       Dir(<<sSrc, Named(<<"G">>, csprojExt)>>),
       File(<<sSrc, <<"x">>, <<"y">>, Named(<<"F">>, csprojExt)>>),
       File(<<sSrc, Named(<<"S">>, slnExt)>>),
       File(<<sSrc, Named(<<"E">>, csprojExt)>>) >>

fReadme == File(<<sSrc, <<"r">>>>)

Subsets(n, most) == {S \in SUBSET (1..n) : Cardinality(S) <= most}

\* The trees: src holds a file that is no candidate, and up to MaxEntries of
\* the entries above, listed in one order or the other.
LocateTrees ==
    {<<fReadme>> \o Pick(LocateUniverse, S) :
        S \in Subsets(Len(LocateUniverse), MaxEntries)}
    \cup {Pick(Reverse(LocateUniverse), S) \o <<fReadme>> :
        S \in Subsets(Len(LocateUniverse), MaxEntries)}

\* Each command at the step that finds its file, no path given.
InitLocate ==
    /\ cwd = <<<<"w">>>>
    /\ entries \in LocateTrees
    /\ content = DocFull
    /\ backups = {} /\ clock = 0 /\ status = Running
    /\ NoLocals /\ NoExtra
    /\ version = <<>> /\ test_projects = <<>>
    /\ \/ /\ cmd = "bump" /\ pc = "resolve"
          /\ argv = <<sBump, PATCH>>
          /\ base = <<>>
          /\ push = FALSE /\ remote = <<>> /\ solution_name = None
       \/ /\ cmd = "tag" /\ pc = "locate"
          /\ argv = <<sTag>>
          /\ base = <<sSrc>>
          /\ push = FALSE /\ remote = sOrigin /\ solution_name = None
       \/ /\ cmd = "build" /\ pc = "pick"
          /\ \/ argv = <<sBuild>> /\ solution_name = None
             \/ /\ argv = <<sBuild, sSolution, Named(<<"S">>, slnExt)>>
                /\ solution_name = Some(Named(<<"S">>, slnExt))
          /\ base = <<sSrc>>
          /\ push = FALSE /\ remote = <<>>
    /\ NoHist
    /\ sys_argv = argv

NextLocate ==
    \/ BumpResolve
    \/ TagLocate
    \/ BuildPick

SpecLocate == InitLocate /\ [][NextLocate]_vars

\* What a tree under tests may hold.
TestUniverse ==
    << File(<<sTests, <<"U">>, Named(<<"T">>, csprojExt)>>),
       File(<<sTests, <<"S", "e", "t", "u", "p">>, Named(<<"F">>, csprojExt)>>),
       File(<<sTests, <<"a">>, <<"S", "E", "T", "U", "P">>, Named(<<"X">>, csprojExt)>>),
       File(<<sTests, <<"s", "e", "t", "u", "p">>, <<"b">>, Named(<<"Y">>, csprojExt)>>),
       File(<<sTests, <<"S", "e", "t", "u", "p", "s">>, Named(<<"Z">>, csprojExt)>>),
       File(<<sTests, <<"U">>, Named(<<"s", "e", "t", "u", "p">>, csprojExt)>>),
       File(<<sTests, <<"U">>, <<"n">>>>),
       Dir(<<sTests, Named(<<"D">>, csprojExt)>>) >>

\* The directories that steps 1 and 2 of test.main made.
TestOutputs ==
    << Dir(<<sTests, <<"T", "e", "s", "t", "R", "e", "s", "u", "l", "t", "s">>>>),
       Dir(<<<<"d", "o", "c", "s">>, <<"c", "o", "v", "e", "r", "a", "g", "e">>>>) >>

TestTrees ==
    {Pick(TestUniverse, S) \o TestOutputs :
        S \in Subsets(Len(TestUniverse), MaxEntries)}

\* test.main at step 3, no path given; the working directory may itself lie
\* under a directory named Setup.
InitTest ==
    /\ cmd = "test" /\ pc = "discover"
    /\ argv = <<sTest>>
    /\ cwd \in {<<<<"w">>>>, <<<<"S", "e", "t", "u", "p">>, <<"w">>>>}
    /\ entries \in TestTrees
    /\ base = <<sTests>>
    /\ content = DocFull
    /\ backups = {} /\ clock = 0 /\ status = Running
    /\ NoLocals /\ NoForeign /\ NoHist
    /\ sys_argv = argv

NextTest ==
    \/ TestDiscover

SpecTest == InitTest /\ [][NextTest]_vars

\* Arguments and trees for the path resolvers of build, clean and tag.
MaxArgs == 3

dD == <<"d">>

fF == <<"f">>

mM == <<"m">>

dashV == <<"-", "v">>

BuildTokens ==
    {dD, fF, mM, dashV, sSolution, sConfiguration, sDebug, sBuild,
     <<"B", "u", "i", "l", "d">>}

TagTokens == {dD, fF, mM, dashV, sRemote, sPush, <<"u", "p">>}

CleanTokens ==
    {dD, fF, mM, dashV, <<".">>, <<".", "/">>, <<" ", "'", "d", "'">>}

\* A tree with src, a directory d, a file f and a directory named -v; a tree
\* without src; a tree where src is a regular file.
ResolveTrees ==
    { << Dir(<<dashV>>), File(<<dD, Named(<<"S">>, slnExt)>>), File(<<fF>>),
         File(<<sSrc, Named(<<"T">>, slnExt)>>) >>,
      << Dir(<<sBuild>>), Dir(<<dD>>), File(<<fF>>) >>,
      << Dir(<<dD>>), File(<<sSrc>>) >> }

InitResolve ==
    /\ cwd = <<<<"w">>>>
    /\ entries \in ResolveTrees
    /\ content = DocFull
    /\ backups = {} /\ clock = 0 /\ status = Running
    /\ pc = "main" /\ base = <<>>
    /\ \/ cmd = "build" /\ argv \in {<<sBuild>> \o a : a \in Seqs(BuildTokens, MaxArgs)}
       \/ cmd = "clean" /\ argv \in {<<sClean>> \o a : a \in Seqs(CleanTokens, MaxArgs)}
       \/ cmd = "tag" /\ argv \in {<<sTag>> \o a : a \in Seqs(TagTokens, MaxArgs)}
    /\ NoLocals /\ NoForeign /\ NoHist
    /\ sys_argv = argv

NextResolve ==
    \/ BuildMain
    \/ CleanMain
    \/ TagMain

SpecResolve == InitResolve /\ [][NextResolve]_vars

\* What a tree under src may hold for clean: artifact directories at two
\* depths, one inside another, a file named bin, a directory named Bin.
CleanUniverse ==
    << File(<<sSrc, <<"a">>, sBin, <<"x">>>>),
       Dir(<<sSrc, <<"a">>, sBin, sObj>>),
       Dir(<<sSrc, <<"a">>, sObj>>),
       File(<<sSrc, sBin, sObj, <<"y">>>>),
       File(<<sSrc, <<"b">>, sBin>>),
       Dir(<<sSrc, <<"b">>, <<"B", "i", "n">>>>),
       Dir(<<sSrc, sObj>>),
       File(<<sSrc, Named(<<"P">>, csprojExt)>>) >>

CleanTrees ==
    {Pick(CleanUniverse, S) : S \in Subsets(Len(CleanUniverse), MaxEntries)}

InitClean ==
    /\ cwd = <<<<"w">>>>
    /\ entries \in CleanTrees
    /\ content = DocFull
    /\ backups = {} /\ clock = 0 /\ status = Running
    /\ cmd = "clean" /\ pc = "main" /\ base = <<>>
    /\ argv \in {<<sClean>>, <<sClean, sSrc>>}
    /\ NoLocals /\ NoForeign
    /\ wrote = FALSE /\ touched = FALSE /\ warned = "" /\ runs = 1
    /\ before = [content |-> content, backups |-> backups, entries |-> entries]
    /\ sys_argv = argv

NextClean ==
    \/ CleanMain
    \/ CleanScan
    \/ CleanAgain

SpecClean == InitClean /\ [][NextClean]_vars

\* The arguments and the tree for the commands that run processes.
upRemote == <<"u", "p">>

TagArgvs ==
    { <<sTag>>, <<sTag, sPush>>, <<sTag, sRemote, upRemote>>,
      <<sTag, sPush, sRemote, upRemote>>, <<sTag, sRemote, upRemote, sPush>>,
      <<sTag, sSrc, sPush>>, <<sTag, sRemote, upRemote, sRemote, sOrigin, sPush>>,
      <<sTag, sRemote, sPush>> }

BuildArgvs ==
    { <<sBuild>>, <<sBuild, sNoRestore>>, <<sBuild, sConfiguration, sDebug>>,
      <<sBuild, sNoRestoreCamel, sConfiguration, sRelease>>,
      <<sBuild, sSolution, Named(<<"S">>, slnExt)>> }

ProcsTree ==
    << File(<<sSrc, Named(<<"P">>, csprojExt)>>),
       File(<<sSrc, Named(<<"S">>, slnExt)>>),
       File(<<sTests, <<"T">>, Named(<<"T">>, csprojExt)>>),
       File(<<sTests, <<"U">>, Named(<<"U">>, csprojExt)>>) >>

InitProcs ==
    /\ cwd = <<<<"w">>>>
    /\ entries = ProcsTree
    /\ content \in {DocFull, DocShort, DocBare}
    /\ backups = {} /\ clock = 0 /\ status = Running
    /\ \/ cmd = "build" /\ pc = "main" /\ argv \in BuildArgvs /\ base = <<>>
       \/ cmd = "tag" /\ pc = "main" /\ argv \in TagArgvs /\ base = <<>>
       \/ cmd = "test" /\ pc = "discover" /\ argv = <<sTest>> /\ base = <<sTests>>
    /\ NoLocals /\ NoForeign /\ NoHist
    /\ sys_argv = argv

NextProcs ==
    \/ BuildMain
    \/ BuildPick
    \/ BuildRestore
    \/ BuildBuild
    \/ TestDiscover
    \/ TestRun
    \/ TestReport
    \/ TagMain
    \/ TagLocate
    \/ TagReadVersion
    \/ TagVerify
    \/ TagCreate
    \/ TagPush

SpecProcs == InitProcs /\ [][NextProcs]_vars

\* The arguments of the dispatcher: nothing, or a first word (a command, a
\* help word, something else) and up to MaxRest more.
MaxRest == 1

CliWords ==
    {sBuild, sClean, sTest, sBump, sTag, sInitLib, sInitMin, sInitProj}
    \cup HelpWords
    \cup {<<"B", "u", "i", "l", "d">>, <<"i", "n", "i", "t">>, <<"-", "v">>, <<>>}

CliArgvs ==
    {<<>>} \cup {<<w>> \o rest : w \in CliWords,
                                 rest \in Seqs({sSrc, sPush, sHelp}, MaxRest)}

\* The name of the console script.
sProg == <<"p", "y", "t", "h", "o", "n", "-", "d", "o", "t", "n", "e", "t", "-",
           "t", "o", "o", "l", "s">>

\* What sys.argv may hold when cli.main is called: the console script run
\* with no argument, with the command, with the command and a path, and a
\* caller of cli.main that was itself started with a path or with a flag.
SysArgvs ==
    {<<sProg>>, <<sProg, sTest>>, <<sProg, sTest, sSrc>>, <<sProg, sSrc>>,
     <<sProg, sPush>>}

InitCli ==
    /\ cmd = "cli" /\ pc = "main"
    /\ argv \in CliArgvs
    /\ cwd = <<<<"w">>>> /\ entries = ProcsTree /\ base = <<>>
    /\ content = DocFull
    /\ backups = {} /\ clock = 0 /\ status = Running
    /\ NoLocals /\ NoForeign /\ NoHist
    /\ sys_argv \in SysArgvs

NextCli ==
    \/ CliMain
    \/ TestMain
    \/ CommandEnds
    \/ CliReturn

SpecCli == InitCli /\ [][NextCli]_vars

(***************************************************************************)
(* Properties of bump.main                                                 *)
(***************************************************************************)

\* v is three non-empty runs of digits separated by two dots.
IsSemver(v) ==
    \E i \in 2..(Len(v) - 3) :
        /\ v[i] = "."
        /\ \E j \in (i + 2)..(Len(v) - 1) :
               /\ v[j] = "."
               /\ \A k \in 1..Len(v) : k \in {i, j} \/ IsDigit(v[k])

\* t holds a tag <Version>X.Y.Z</Version>.
HasVersionTag(t) ==
    \E a \in 1..Len(t) :
        /\ LitAt(t, a, Tag(nVersion))
        /\ \E b \in (a + 1)..Len(t) :
               /\ LitAt(t, b, CloseTag(nVersion))
               /\ IsSemver(SubSeq(t, a + Len(Tag(nVersion)), b - 1))

\* The backup file of this run.
Own == {b \in backups : backup.some /\ b.ts = backup.ts}

\* The backup files of earlier runs under other names.
Others == {b \in before.backups : ~backup.some \/ b.ts # backup.ts}

\* This run went through its verification, which found the tag (or not).
Verified == cmd = "bump" /\ pc = "returned" /\ status.code = 0 /\ matched

Unverified == cmd = "bump" /\ pc = "returned" /\ status.code = 0 /\ ~matched

\* C1: bump writes the descriptor only after create_backup returned, the
\* backup file holding the text the descriptor had (when no other program
\* wrote it in between); when the copy of the backup fails, the command
\* ends with a failure, has not written the descriptor and leaves its text.
C1_BackupBeforeWrite ==
    cmd = "bump" =>
        /\ wrote => backup.some
        /\ pc \in {"update", "write", "verify", "cleanup"} =>
               /\ Own # {}
               /\ \A b \in Own : ~touched => b.data = before.content
        /\ status.msg = "OSError" =>
               /\ pc = "exited" /\ status.code # 0
               /\ ~wrote
               /\ ~touched => content = before.content

C1_Witness ==
    /\ cmd = "bump" /\ pc = "exited" /\ status.msg = "OSError"
    /\ ~touched /\ content = before.content /\ runs = 2

\* C2 as stated: after a verified run no backup file is left.
C2_NoBackupAfterVerified ==
    Verified => backups = {}

\* C2, amended: after a verified run the backup of the run is deleted, or
\* its unlink raised, and then it is kept and "Backup not deleted" is logged;
\* the backup files that earlier runs left under other names are kept.
C2_BackupDeletedUnlessUnlinkFails ==
    Verified =>
        /\ warned \in {"", "Backup not deleted"}
        /\ warned = "" => Own = {} /\ backups = Others
        /\ warned = "Backup not deleted" =>
               Cardinality(Own) = 1 /\ backups = Others \cup Own

C2_Witness ==
    Verified /\ warned = "" /\ wrote /\ Own = {} /\ Others # {}

\* C3 as stated: after a run whose verification failed exactly one backup
\* file is left.
C3_ExactlyOneBackup ==
    Unverified => Cardinality(backups) = 1

\* What C3 says of the state after a run whose verification failed.
C3_Kept ==
    Unverified =>
        /\ warned = "Backup retained"
        /\ Cardinality(Own) = 1
        /\ backups = Others \cup Own
        /\ before.backups = {} => Cardinality(backups) = 1

\* C3, amended: after a run whose verification failed, the backup of the run
\* is kept, beside the backup files that earlier runs left under other names
\* (so exactly one is left when none was there before the run); the step
\* that keeps it leaves the descriptor as written; bump returns 0.
C3_VerifyFailedKeepsBackup ==
    /\ [](C3_Kept)
    /\ [][pc = "cleanup" => content' = content /\ status'.code = 0]_vars

C3_Witness ==
    Unverified /\ wrote /\ Cardinality(backups) = 1 /\ content = DocOther

\* C27: in a run of bump during which no other program wrote the
\* descriptor, the verification after the write finds the tag, whatever the
\* descriptor held and whichever way the version went in (replaced, after
\* PackageId, after <PropertyGroup>, appended); a run ends with its
\* verification failed, the backup retained, only when another program
\* wrote the descriptor during the run.
C27_VerifiedUnlessTouched ==
    cmd = "bump" =>
        /\ (pc \in {"cleanup", "returned"} /\ wrote /\ ~touched) => matched
        /\ Unverified => touched
        /\ warned = "Backup retained" => touched

\* A verified run that appended the tag to a descriptor with no anchor.
C27_Witness ==
    /\ Verified /\ wrote /\ ~touched
    /\ before.content = DocBare
    /\ content = DocBare \o <<"\n">> \o VersionLine(target_version)

\* C29: a run of bump that ends with a failure reported by error(), which
\* is a failure of resolving the descriptor, of computing the target or of
\* validating its format, has written nothing: the descriptor holds what it
\* held when the run began, no backup file was made, and the backup files
\* beside the descriptor are those of before the run.
C29_EarlyFailureWritesNothing ==
    (cmd = "bump" /\ pc = "exited" /\ status.msg # "OSError") =>
        /\ status.code # 0
        /\ content = before.content
        /\ backups = before.backups
        /\ ~backup.some /\ ~wrote /\ ~touched

\* A second run failed at the validation of the format, after a first run
\* that left a backup file.
C29_Witness ==
    /\ cmd = "bump" /\ pc = "exited"
    /\ status.msg = "Invalid version format: "
    /\ runs = 2 /\ backups # {}
    /\ content = before.content /\ backups = before.backups

\* C6: a run of bump with --major, --minor or --patch on a descriptor that
\* holds no <Version>X.Y.Z</Version> ends, when the descriptor was found,
\* at compute_target with an error that names the directive: no target is
\* computed, nothing is written and no backup is made.
C6_DirectiveNeedsVersion ==
    ( /\ cmd = "bump" /\ Len(argv) >= 2 /\ argv[2] \in {MAJOR, MINOR, PATCH}
      /\ ~HasVersionTag(before.content)
      /\ located.err.code = 0
      /\ pc \notin {"main", "resolve", "read", "compute"} )
    => /\ pc = "exited" /\ status.code = 1
       /\ status.msg = " requires existing version (<Version> tag missing in csproj)"
       /\ status.arg = argv[2]
       /\ target_version = <<>>
       /\ ~wrote /\ ~backup.some /\ backups = before.backups

C6_Witness ==
    /\ cmd = "bump" /\ pc = "exited" /\ argv[2] = MINOR
    /\ ~HasVersionTag(content) /\ status.arg = MINOR

\* C21: a run of bump never uses the backup file of another run: the file
\* it creates bears a name that no backup file left by an earlier run bears,
\* and every backup file that was there when the run began is still there,
\* with the data it held.
C21_BackupNeverReused ==
    cmd = "bump" =>
        /\ backup.some => \A b \in before.backups : b.ts # backup.ts
        /\ before.backups \subseteq backups

(***************************************************************************)
(* Properties of the version functions                                     *)
(***************************************************************************)

\* C4: validate_version(s) returns exactly when s is three non-empty runs
\* of digits separated by two dots and nothing else; for every other s
\* (the empty one too) it ends the command with "Invalid version format"
\* naming s.
C4_ValidateVersion ==
    (cmd = "validate_version" /\ pc # "call") =>
        IF IsSemver(target_version)
        THEN pc = "returned" /\ status = NoError
        ELSE /\ pc = "exited"
             /\ status = [code |-> 1, msg |-> "Invalid version format: ",
                          arg |-> target_version]

C4_Witness ==
    /\ cmd = "validate_version" /\ pc = "exited"
    /\ status.arg = <<"1", ".", "1", ".", "1", "\n">>

\* The value that a run of decimal digits denotes.
RECURSIVE Weigh(_)
Weigh(run) ==
    IF run = <<>> THEN 0
    ELSE DigitVal(run[1]) * 10^(Len(run) - 1) + Weigh(Tail(run))

\* run is the decimal numeral of n, with no leading zero.
Numeral(run, n) ==
    /\ run # <<>>
    /\ \A k \in 1..Len(run) : IsDigit(run[k])
    /\ Len(run) > 1 => run[1] # "0"
    /\ Weigh(run) = n

DotsOf(v) == {i \in 1..Len(v) : v[i] = "."}

\* The k-th of the three components of v, a string with two dots.
Field(v, k) ==
    LET i == CHOOSE d \in DotsOf(v) : \A e \in DotsOf(v) : d <= e
        j == CHOOSE d \in DotsOf(v) : \A e \in DotsOf(v) : d >= e
    IN  IF k = 1 THEN SubSeq(v, 1, i - 1)
        ELSE IF k = 2 THEN SubSeq(v, i + 1, j - 1)
        ELSE SubSeq(v, j + 1, Len(v))

\* t is c with its k-th component one higher, the ones before it as they
\* are in value and the ones after it zero.
Bumped(t, c, k) ==
    /\ Cardinality(DotsOf(t)) = 2
    /\ \A f \in 1..3 :
           Numeral(Field(t, f), IF f < k THEN Weigh(Field(c, f))
                                ELSE IF f = k THEN Weigh(Field(c, f)) + 1
                                ELSE 0)

\* C5: for a current version M.N.P compute_target returns (M+1).0.0 for
\* --major, M.(N+1).0 for --minor and M.N.(P+1) for --patch; an argument
\* that is none of the three is returned as it is, with or without a
\* current version.
C5_ComputeTarget ==
    (cmd = "compute_target" /\ pc # "call") =>
        /\ (argv[2] = MAJOR /\ current_version.some) =>
               pc = "returned" /\ Bumped(target_version, current_version.val, 1)
        /\ (argv[2] = MINOR /\ current_version.some) =>
               pc = "returned" /\ Bumped(target_version, current_version.val, 2)
        /\ (argv[2] = PATCH /\ current_version.some) =>
               pc = "returned" /\ Bumped(target_version, current_version.val, 3)
        /\ argv[2] \notin {MAJOR, MINOR, PATCH} =>
               pc = "returned" /\ target_version = argv[2]

C5_Witness ==
    /\ cmd = "compute_target" /\ pc = "returned" /\ argv[2] = MINOR
    /\ current_version.val = <<"0", "9", ".", "9", "9", ".", "9">>
    /\ target_version = <<"9", ".", "1", "0", "0", ".", "0">>

(***************************************************************************)
(* Properties of the transform                                             *)
(***************************************************************************)

\* t holds <Version>X.Y.Z</Version> from position a to position b - 1.
TagSpan(t, a, b) ==
    /\ LitAt(t, a, Tag(nVersion))
    /\ b > Len(CloseTag(nVersion))
    /\ LitAt(t, b - Len(CloseTag(nVersion)), CloseTag(nVersion))
    /\ IsSemver(SubSeq(t, a + Len(Tag(nVersion)), b - Len(CloseTag(nVersion)) - 1))

TagStarts(t) ==
    {a \in 1..Len(t) :
        /\ LitAt(t, a, Tag(nVersion))
        /\ \E b \in (a + 1)..(Len(t) + 1) : TagSpan(t, a, b)}

\* C7: when raw holds well-formed <Version>X.Y.Z</Version> tags, the result
\* of insert_or_replace_version is raw with the payload of the first of
\* them replaced by the version given, whatever it is made of: every
\* character before it, and every character after it (the later tags too),
\* is as in raw.
C7_FirstTagOnly ==
    (cmd = "insert_or_replace_version" /\ pc = "returned") =>
        LET starts == TagStarts(raw)
            a == CHOOSE x \in starts : \A y \in starts : x <= y
        IN  starts # {} =>
                \E b \in (a + 1)..(Len(raw) + 1) :
                    /\ TagSpan(raw, a, b)
                    /\ content = SubSeq(raw, 1, a + Len(Tag(nVersion)) - 1)
                                 \o target_version
                                 \o SubSeq(raw, b - Len(CloseTag(nVersion)), Len(raw))

C7_Witness ==
    /\ cmd = "insert_or_replace_version" /\ pc = "returned"
    /\ Cardinality(TagStarts(raw)) = 2
    /\ target_version = <<"1", "1">>
    /\ Cardinality(TagStarts(content)) = 1
    /\ content # raw

\* C22: insert_or_replace_version is idempotent for a valid version: applied
\* with v to the result of a first application with v, it returns that
\* result unchanged, with no second tag.
C22_Idempotent ==
    (cmd = "insert_or_replace_version" /\ pc = "twice" /\ IsSemver(target_version))
    => content = before.content

\* The first application inserted a tag, the second one changed nothing.
C22_Witness ==
    /\ cmd = "insert_or_replace_version" /\ pc = "twice"
    /\ IsSemver(target_version)
    /\ TagStarts(raw) = {}
    /\ HasVersionTag(before.content)
    /\ content = before.content /\ content # raw

\* The positions of the literal <Version> in t.
VersionOpens(t) == {a \in 1..Len(t) : LitAt(t, a, Tag(nVersion))}

\* t holds <PackageId>, and </PackageId> after it.
HasPackageId(t) ==
    \E a \in 1..Len(t) :
        /\ LitAt(t, a, Tag(nPackageId))
        /\ \E c \in (a + 1)..Len(t) : LitAt(t, c, CloseTag(nPackageId))

\* In t only white space lies between a </PackageId> and position a.
AfterPackageId(t, a) ==
    \E c \in 1..a :
        /\ LitAt(t, c, CloseTag(nPackageId))
        /\ c + Len(CloseTag(nPackageId)) <= a
        /\ \A k \in (c + Len(CloseTag(nPackageId)))..(a - 1) : IsSpace(t[k])

\* The positions of lit in t.
LitStarts(t, lit) == {a \in 1..Len(t) : LitAt(t, a, lit)}

Least(S) == CHOOSE x \in S : \A y \in S : x <= y

\* Position k of t is the first one, from position a on, that holds no white
\* space (the position after the end of t when there is none).
PastSpace(t, a, k) ==
    /\ a <= k /\ k <= Len(t) + 1
    /\ \A j \in a..(k - 1) : IsSpace(t[j])
    /\ k <= Len(t) => ~IsSpace(t[k])

\* Where the white space before the insertion into t begins: behind the
\* first PackageId element; without such an element, behind the first
\* <PropertyGroup>; 0 without either, and the insertion is at the end of t.
AnchorOf(t) ==
    LET opens == LitStarts(t, Tag(nPackageId))
        closes == IF opens = {} THEN {}
                  ELSE {c \in LitStarts(t, CloseTag(nPackageId)) :
                            c >= Least(opens) + Len(Tag(nPackageId))}
        groups == LitStarts(t, Tag(nPropertyGroup))
    IN  IF closes # {} THEN Least(closes) + Len(CloseTag(nPackageId))
        ELSE IF groups # {} THEN Least(groups) + Len(Tag(nPropertyGroup))
        ELSE 0

\* The text inserted for version v: the tag behind four spaces, and a line
\* break; at the end of the text (anchor 0) a line break comes first.
InsertedText(anchor, v) ==
    LET line == <<" ", " ", " ", " ">> \o Tag(nVersion) \o v
                \o CloseTag(nVersion) \o <<"\n">>
    IN  IF anchor # 0 THEN line ELSE <<"\n">> \o line

\* C23: when raw holds no well-formed <Version> tag, the result of
\* insert_or_replace_version is raw with one text inserted, one version tag
\* behind four spaces; the place is the first anchor present in the order
\* PackageId element, first <PropertyGroup>, end of the text (behind the
\* white space that follows the anchor); taking the inserted text out of the
\* result gives raw.
C23_InsertAtFirstAnchor ==
    (cmd = "insert_or_replace_version" /\ pc = "returned" /\ TagStarts(raw) = {}) =>
        LET anchor == AnchorOf(raw)
            text == InsertedText(anchor, target_version)
            from == IF anchor = 0 THEN Len(raw) + 1 ELSE anchor
        IN  /\ Len(content) = Len(raw) + Len(text)
            /\ \E k \in from..(Len(raw) + 1) :
                   /\ PastSpace(raw, from, k)
                   /\ SubSeq(content, 1, k - 1) = SubSeq(raw, 1, k - 1)
                   /\ SubSeq(content, k, k + Len(text) - 1) = text
                   /\ SubSeq(content, k + Len(text), Len(content))
                          = SubSeq(raw, k, Len(raw))
            /\ Cardinality(VersionOpens(content))
                   = Cardinality(VersionOpens(raw)) + 1

\* A text with a property group and, further on, a PackageId element: the
\* tag went behind the PackageId element.
C23_Witness ==
    /\ cmd = "insert_or_replace_version" /\ pc = "returned"
    /\ TagStarts(raw) = {}
    /\ HasPackageId(raw)
    /\ LitStarts(raw, Tag(nPropertyGroup)) # {}
    /\ PackageIdEnd(raw) # PropertyGroupEnd(raw)
    /\ \E a \in VersionOpens(content) : AfterPackageId(content, a)

\* bump wrote version v into a well-formed descriptor, a Project that held
\* <PackageId> and no <Version>, and tag then read the descriptor.
InsertedThenRead ==
    /\ cmd = "tag" /\ pc \notin {"main", "locate", "version"}
    /\ wrote /\ ~touched
    /\ LitAt(before.content, 1, <<"<">> \o nProject)
    /\ VersionOpens(before.content) = {}
    /\ HasPackageId(before.content)
    /\ ET_parse(before.content).ok

\* C8: into a descriptor with <PackageId> and no <Version> bump inserts
\* exactly one <Version> tag, directly after the closing tag of PackageId,
\* and the version that tag extracts from the result is the one inserted.
C8_InsertRoundTrip ==
    InsertedThenRead =>
        /\ Cardinality(VersionOpens(content)) = 1
        /\ \A a \in VersionOpens(content) :
               /\ AfterPackageId(content, a)
               /\ \E b \in (a + 1)..(Len(content) + 1) : TagSpan(content, a, b)
        /\ pc = "create"
        /\ version = target_version

\* C28: after bump wrote version v into a well-formed descriptor (a Project
\* that parses, whatever else it holds: a Version tag whose payload is not
\* X.Y.Z, tags whose name ends with Version), tag reads the descriptor
\* without a failure and the version it extracts is v.
C28_TagReadsTheBump ==
    ( /\ cmd = "tag" /\ pc \notin {"main", "locate", "version"}
      /\ wrote /\ ~touched
      /\ LitAt(before.content, 1, <<"<">> \o nProject)
      /\ ET_parse(before.content).ok )
    => /\ pc = "create"
       /\ version = target_version

(***************************************************************************)
(* Properties of the locators                                              *)
(***************************************************************************)

HasExt(n, ext) ==
    Len(n) >= Len(ext) /\ \A i \in 1..Len(ext) : n[Len(n) - Len(ext) + i] = ext[i]

\* The command looked for its file on its own: no path and no name given.
AutoLocated ==
    \/ cmd = "bump" /\ pc \notin {"main", "resolve"} /\ Len(argv) < 3
    \/ cmd = "tag" /\ pc \notin {"main", "locate"}
    \/ cmd = "build" /\ pc \notin {"main", "pick"} /\ ~solution_name.some

\* The positions in the tree of the candidates of the command: for bump the
\* entries of src named *.csproj, for tag the files *.csproj at any depth
\* under the base, for build the files *.sln of the base.
Candidates ==
    {k \in 1..Len(entries) :
        LET p == entries[k].parts
        IN  IF cmd = "bump"
            THEN Len(p) = 2 /\ p[1] = sSrc /\ HasExt(p[2], csprojExt)
            ELSE IF cmd = "tag"
            THEN /\ Len(p) > Len(base) /\ IsPrefix(base, p)
                 /\ HasExt(p[Len(p)], csprojExt) /\ entries[k].is_file
            ELSE /\ Len(p) = Len(base) + 1 /\ IsPrefix(base, p)
                 /\ HasExt(p[Len(p)], slnExt) /\ entries[k].is_file}

CandidateNames == {entries[k].parts[Len(entries[k].parts)] : k \in Candidates}

Listed == {located.names[i] : i \in 1..Len(located.names)}

\* The i-th candidate in the order of the listing.
NthCandidate(i) ==
    CHOOSE k \in Candidates : Cardinality({m \in Candidates : m < k}) = i - 1

\* One candidate is returned, none is a failure.
OneOrNone ==
    /\ Cardinality(Candidates) = 0 =>
           pc = "exited" /\ status.code = 1 /\ located.names = <<>>
    /\ Cardinality(Candidates) = 1 =>
           /\ pc # "exited" /\ status = Running
           /\ \A k \in Candidates : located.path = entries[k].parts
    /\ pc # "exited" => Cardinality(Candidates) = 1

IsSetupName(seg) ==
    /\ Len(seg) = 5
    /\ seg[1] \in {"s", "S"} /\ seg[2] \in {"e", "E"} /\ seg[3] \in {"t", "T"}
    /\ seg[4] \in {"u", "U"} /\ seg[5] \in {"p", "P"}

\* C10: no project that collect_test_projects returned, and that test.main
\* goes on to run, has a segment "setup" in any letter case in its path;
\* what it returned are files named *.csproj of the tree.
C10_NoSetupProject ==
    (cmd = "test" /\ pc \notin {"main", "discover"}) =>
        \A k \in 1..Len(test_projects) :
            /\ \A i \in 1..Len(cwd \o test_projects[k].parts) :
                   ~IsSetupName((cwd \o test_projects[k].parts)[i])
            /\ \E m \in 1..Len(entries) : entries[m] = test_projects[k]
            /\ test_projects[k].is_file
            /\ HasExt(name(test_projects[k].parts), csprojExt)

C10_Witness ==
    /\ cmd = "test" /\ pc = "run"
    /\ \E m \in 1..Len(entries) :
           /\ entries[m].is_file
           /\ HasExt(name(entries[m].parts), csprojExt)
           /\ \E i \in 1..Len(entries[m].parts) :
                  entries[m].parts[i] = <<"S", "E", "T", "U", "P">>
    /\ \E m \in 1..Len(entries) :
           /\ entries[m].is_file
           /\ entries[m].parts[2] = <<"S", "e", "t", "u", "p">>
    /\ Len(test_projects) = 3

(***************************************************************************)
(* Properties of the path resolvers                                        *)
(***************************************************************************)

\* The resolver of the command returned a path.
Resolved == cmd \in {"build", "clean", "tag"} /\ pc \in {"pick", "scan", "locate"}

\* The resolver of the command exited with the message about its path.
Rejected ==
    /\ cmd \in {"build", "clean", "tag"} /\ pc = "exited"
    /\ status.msg \in
         {"Target path not found: ",
          "No 'src' folder found in the current working directory.",
          "Provided path does not exist or is not a directory: ",
          "No path argument provided and 'src' directory was not found in current working directory."}

\* C11: every path returned by the resolvers of build, clean and tag exists
\* and is a directory; a missing path or a regular file makes the resolver
\* fail.
C11_ResolvedIsDirectory ==
    Resolved => exists(entries, base) /\ ~is_file(entries, base)

\* The flags of the command that take a value.
ValueFlags(c) ==
    IF c = "build" THEN {sSolution, sConfiguration}
    ELSE IF c = "tag" THEN {sRemote} ELSE {}

\* The outcome of the resolver is the one of the token t, or of the default
\* when there is none.
OutcomeOf(t) ==
    /\ Resolved => base = IF t.some THEN Path(t.val) ELSE <<sSrc>>
    /\ Rejected => status.arg = IF t.some THEN t.val ELSE <<>>

\* The first token that is neither a flag nor the token after a value-taking
\* flag.
FirstRemaining(args, c) ==
    LET rest == {i \in 2..Len(args) :
                    /\ ~IsFlag(args[i])
                    /\ ~(i > 2 /\ args[i - 1] \in ValueFlags(c))}
    IN  IF rest = {} THEN None
        ELSE Some(args[CHOOSE i \in rest : \A j \in rest : i <= j])

\* C12, as stated: in build, clean and tag the path is the first token that
\* is neither a flag nor the token after a value-taking flag, or the default
\* when there is none.
C12_FirstRemainingToken == OutcomeOf(FirstRemaining(argv, cmd))

\* The token at i is consumed as the value of a value-taking flag: the flag
\* before it is not itself consumed as a value.
RECURSIVE IsValueAt(_, _, _)
IsValueAt(args, i, c) ==
    i > 2 /\ args[i - 1] \in ValueFlags(c) /\ ~IsValueAt(args, i - 1, c)

\* The token taken as the path: in build and tag the first token that is not
\* a flag, not the value of a value-taking flag and, in build, not the word
\* build in any letter case; in clean the first argument, whatever it is,
\* without surrounding blanks and quotes.
PathToken(args, c) ==
    LET rest == {i \in 2..Len(args) :
                    /\ ~IsFlag(args[i])
                    /\ ~IsValueAt(args, i, c)
                    /\ c = "build" => lower(args[i]) # sBuild}
    IN  IF c = "clean"
        THEN IF Len(args) > 1 THEN Some(Unquote(args[2])) ELSE None
        ELSE IF rest = {} THEN None
        ELSE Some(args[CHOOSE i \in rest : \A j \in rest : i <= j])

\* C12, amended: build and tag take the first token that is not a flag, not
\* a flag's value and (build) not the word build; clean takes its first
\* argument even when it starts with "-"; the default applies when no such
\* token remains.
C12_PathToken == OutcomeOf(PathToken(argv, cmd))

\* A value-taking flag was skipped with its value before the path was taken.
C12_Witness ==
    /\ Resolved /\ Len(argv) = 4
    /\ argv[2] \in ValueFlags(cmd) /\ ~IsFlag(argv[3])
    /\ base = Path(argv[4]) /\ base # Path(argv[3])

\* C13, as stated: in build an explicit path token that names a nonexistent
\* path makes the command fail with the path-not-found error.
C13_MissingPathNotFound ==
    LET t == FirstRemaining(argv, "build")
    IN  cmd = "build" /\ pc # "main" /\ t.some /\ ~exists(entries, Path(t.val))
        => pc = "exited" /\ status.msg = "Target path not found: "

\* Each value-taking flag of build is followed by a value, and the
\* configuration is Debug or Release.
WellFormedFlags(args) ==
    /\ \A flag \in {sSolution, sConfiguration} :
          In(args, flag) =>
             LET i == CHOOSE k \in 1..Len(args) :
                          args[k] = flag /\ \A m \in 1..(k - 1) : args[m] # flag
             IN  i < Len(args) /\ ~IsFlag(args[i + 1])
    /\ \A i \in 1..(Len(args) - 1) :
          (args[i] = sConfiguration /\ \A m \in 1..(i - 1) : args[m] # sConfiguration)
          => args[i + 1] \in {sDebug, sRelease}

\* C13, amended: in build a path token other than the word build that names
\* a nonexistent path makes the command exit with status 1, with the
\* path-not-found error when the flags are well formed and with the error of
\* the flags otherwise; the default directory is never used.
C13_MissingPathFatal ==
    LET t == PathToken(argv, "build")
    IN  cmd = "build" /\ pc # "main" /\ t.some /\ ~exists(entries, Path(t.val))
        => /\ pc = "exited" /\ status.code = 1
           /\ IF WellFormedFlags(argv)
              THEN status.msg = "Target path not found: " /\ status.arg = t.val
              ELSE status.msg \in
                     {"--solution requires a solution file name, e.g. --solution ArturRios.Output.sln",
                      "--configuration requires a value: Debug or Release",
                      "--configuration must be either 'Debug' or 'Release'"}

\* A missing path after a flag and its value was rejected while src exists.
C13_Witness ==
    /\ cmd = "build" /\ pc = "exited"
    /\ argv = <<sBuild, sConfiguration, sDebug, mM>>
    /\ exists(entries, <<sSrc>>)
    /\ status.msg = "Target path not found: " /\ status.arg = mM

(***************************************************************************)
(* Properties of clean                                                     *)
(***************************************************************************)

\* The directories named bin or obj at any depth under d.
ArtifactDirs(fs, d) ==
    {q \in UNION {{SubSeq(fs[k].parts, 1, n) : n \in 1..Len(fs[k].parts)} :
                      k \in 1..Len(fs)} :
        /\ IsPrefix(d, q) /\ Len(q) > Len(d)
        /\ is_dir(fs, q)
        /\ name(q) \in {sBin, sObj}}

\* C14: after clean returns no directory named bin or obj remains at any
\* depth under base, and a second clean on the same tree removes nothing and
\* reports a count of 0.
C14_NothingLeftToClean ==
    cmd = "clean" /\ pc = "returned"
    => /\ ArtifactDirs(entries, base) = {}
       /\ runs > 1 => removed = 0 /\ visited = <<>> /\ entries = before.entries

\* p has no directory named bin or obj above it under d.
Outermost(p, d) ==
    \A n \in (Len(d) + 1)..(Len(p) - 1) : p[n] \notin {sBin, sObj}

\* C15: the count reported by clean is the number of outermost bin and obj
\* directories that were removed; a directory inside a matched one is neither
\* visited nor counted, and a directory whose removal failed is not counted.
C15_CountsRemovedOutermost ==
    cmd = "clean" /\ pc = "returned"
    => /\ \A i \in 1..Len(visited) : Outermost(visited[i], base)
       /\ removed = Cardinality({p \in ArtifactDirs(before.entries, base) :
                                    Outermost(p, base) /\ ~exists(entries, p)})

(***************************************************************************)
(* Properties of the external processes                                    *)
(***************************************************************************)

\* The processes that the commands start through run().
RunProgs ==
    {"dotnet restore", "dotnet build", "dotnet test", "reportgenerator",
     "git tag", "git push"}

\* C16: in build, test and tag, once a process started through run() has
\* returned a non-zero exit code the command has terminated with a non-zero
\* status, and that process is the last of the log: no later process is
\* invoked and the failed one is not started again.
C16_FailureTerminates ==
    \A i \in 1..Len(calls) :
        calls[i].prog \in RunProgs /\ calls[i].code > 0
        => i = Len(calls) /\ pc = "exited" /\ status.code # 0

\* A later process was due when one failed: the log stops at the failure.
C16_Witness ==
    /\ cmd = "build" /\ pc = "exited"
    /\ Len(calls) = 2
    /\ calls[1].prog = "dotnet restore" /\ calls[1].code = 0
    /\ calls[2].prog = "dotnet build" /\ calls[2].opt = sDebug /\ calls[2].code > 0
    /\ ~configuration.some

\* The entries of the log for prog, in the order of the log.
CallsOf(prog) == SelectSeq(calls, LAMBDA c : c.prog = prog)

\* C25: build starts its processes in a fixed order.  Without the flag that
\* skips the restore (--no-restore, in either spelling), the first process is
\* the one restore, and a build follows only when it ended with 0; with the
\* flag no restore is started and every build carries --no-restore.  The
\* builds are, in order, Debug and Release, or the one configuration given
\* with --configuration.  build has returned 0 only when every process due
\* was started and ended with 0.
C25_RestoreThenBuilds ==
    (cmd = "build" /\ pc \notin {"main", "pick"}) =>
        LET restores == CallsOf("dotnet restore")
            builds == CallsOf("dotnet build")
            due == IF configuration.some THEN <<configuration.val>>
                   ELSE <<sDebug, sRelease>>
        IN  /\ calls = restores \o builds
            /\ IF no_restore
               THEN /\ restores = <<>>
                    /\ \A i \in 1..Len(builds) : builds[i].flags = <<sNoRestore>>
               ELSE /\ Len(restores) <= 1
                    /\ builds # <<>> => Len(restores) = 1 /\ restores[1].code = 0
            /\ IsPrefix([i \in 1..Len(builds) |-> builds[i].opt], due)
            /\ \A i \in 1..(Len(calls) - 1) : calls[i].code = 0
            /\ pc = "returned" =>
                   /\ status.code = 0
                   /\ Len(builds) = Len(due)
                   /\ ~no_restore => Len(restores) = 1
                   /\ \A i \in 1..Len(calls) : calls[i].code = 0

\* build returned 0 after the restore, the Debug build and the Release build.
C25_Witness ==
    /\ cmd = "build" /\ pc = "returned"
    /\ ~no_restore /\ ~configuration.some
    /\ Len(calls) = 3
    /\ calls[1].prog = "dotnet restore"
    /\ calls[2].opt = sDebug /\ calls[3].opt = sRelease

\* C17: when git rev-parse --verify v<version> ended with exit code 0 the tag
\* command has terminated with a non-zero status and has invoked neither the
\* creation of the tag nor the push.
C17_ExistingTagStops ==
    (\E i \in 1..Len(calls) :
        /\ calls[i].prog = "git rev-parse"
        /\ calls[i].target = <<"v">> \o version
        /\ calls[i].code = 0)
    => /\ pc = "exited" /\ status.code # 0
       /\ \A j \in 1..Len(calls) : calls[j].prog \notin {"git tag", "git push"}

\* The tag was found to exist while --push was asked for.
C17_Witness ==
    /\ cmd = "tag" /\ pc = "exited" /\ push
    /\ Len(calls) = 1
    /\ calls[1].prog = "git rev-parse" /\ calls[1].code = 0

\* The remote that the arguments name: the value after the first --remote,
\* or origin.
RemoteOf(args) ==
    IF \E k \in 2..Len(args) : args[k] = sRemote
    THEN args[1 + CHOOSE k \in 2..Len(args) :
                     args[k] = sRemote /\ \A m \in 2..(k - 1) : args[m] # sRemote]
    ELSE sOrigin

\* C26: tag creates a git tag only from a version of the shape
\* MAJOR.MINOR.PATCH: every git tag -a of the log that ended with 0 is for
\* the name v followed by three runs of digits separated by dots.
C26_TagsOnlySemver ==
    cmd = "tag" =>
        \A i \in 1..Len(calls) :
            calls[i].prog = "git tag" /\ calls[i].code = 0
            => /\ calls[i].target = <<"v">> \o version
               /\ IsSemver(version)

\* C18: the tag command invokes push at most once, only with --push among
\* the arguments and only after the creation of the tag succeeded, and it
\* pushes the tag to the remote given with --remote, or to origin.
C18_PushOnceOnRequest ==
    LET pushes == {i \in 1..Len(calls) : calls[i].prog = "git push"}
    IN  /\ Cardinality(pushes) <= 1
        /\ \A i \in pushes :
              /\ \E k \in 2..Len(argv) : argv[k] = sPush
              /\ \E j \in 1..(i - 1) : calls[j].prog = "git tag" /\ calls[j].code = 0
              /\ calls[i].opt = RemoteOf(argv)
              /\ calls[i].target = <<"v">> \o version

\* A tag was pushed to a remote other than origin.
C18_Witness ==
    /\ cmd = "tag" /\ pc = "returned"
    /\ \E i \in 1..Len(calls) :
          calls[i].prog = "git push" /\ calls[i].opt = upRemote /\ calls[i].code = 0

(***************************************************************************)
(* Properties of the version extraction                                    *)
(***************************************************************************)

\* t parses, and no element of it whose tag ends with Version has a text
\* that is not blank: neither the lookup under the property groups nor the
\* fallback finds a version.
NoVersionElement(t) ==
    LET doc == ET_parse(t)
    IN  /\ doc.ok
        /\ \A k \in 1..Len(doc.elems) :
              ~(endswith(doc.elems[k].tag, nVersion) /\ strip(doc.elems[k].text) # <<>>)

\* The Version properties of the property groups of a descriptor, in
\* document order: the elements tagged Version whose parent is a property
\* group, and of them those whose text is not blank.
VersionProperties(elems) ==
    {k \in 1..Len(elems) :
        /\ elems[k].tag = nVersion
        /\ elems[k].parent # 0
        /\ elems[elems[k].parent].tag = nPropertyGroup
        /\ strip(elems[k].text) # <<>>}

\* C24: from a descriptor that parses, tag extracts the trimmed text of
\* the first Version property of a property group, in document order, whose
\* text is not empty; the elements whose tag only ends with Version count
\* when no property group holds such a property, and only then.
C24_FirstVersionProperty ==
    (cmd = "read_version_from_csproj" /\ pc # "call" /\ ET_parse(content).ok) =>
        LET elems == ET_parse(content).elems
            props == VersionProperties(elems)
        IN  props # {} =>
                /\ pc = "returned"
                /\ version = strip(elems[Least(props)].text)

\* C19, as stated: when no version is found in a well-formed descriptor the
\* extraction of bump and the extraction of tag return, with no version as
\* the value; neither terminates the command.
C19_AbsenceIsAValue ==
    /\ cmd = "read_current_version" /\ pc # "call" /\ ~HasVersionTag(content)
       => pc = "returned" /\ current_version = None
    /\ cmd = "read_version_from_csproj" /\ pc # "call" /\ NoVersionElement(content)
       => pc = "returned" /\ version = <<>>

\* C19, amended: the extraction of bump returns no version as a value and
\* leaves the decision to its caller; the extraction of tag terminates the
\* command with status 1 when neither lookup finds a version.
C19_AbsenceByExtractor ==
    /\ cmd = "read_current_version" /\ pc # "call" /\ ~HasVersionTag(content)
       => pc = "returned" /\ current_version = None
    /\ cmd = "read_version_from_csproj" /\ pc # "call" /\ NoVersionElement(content)
       => /\ pc = "exited" /\ status.code = 1
          /\ status.msg = "Could not find <Version> property in"

\* The extraction of tag ran on a well-formed project without a version.
C19_Witness ==
    /\ cmd = "read_version_from_csproj" /\ pc = "exited"
    /\ NoVersionElement(content)
    /\ LitAt(content, 1, <<"<">> \o nProject)

(***************************************************************************)
(* Properties of the dispatcher                                            *)
(***************************************************************************)

\* The eight commands, each with the module that serves it.
KnownCommands ==
    { <<sBuild, "build">>, <<sClean, "clean">>, <<sTest, "test">>,
      <<sBump, "bump">>, <<sTag, "tag">>, <<sInitLib, "init_lib">>,
      <<sInitMin, "init_min">>, <<sInitProj, "init_proj">> }

\* C20: cli.main returns 0 and runs no command without arguments or for -h,
\* --help or help; it returns 1 and runs no command for an unknown name; for
\* each of the eight known names it invokes that command, and only it, once
\* and ends with the status that the command ended with.
C20_DispatchesOnce ==
    cmd = "cli" /\ pc # "main"
    => IF argv = <<>> \/ argv[1] \in {<<"-", "h">>, <<"-", "-", "h", "e", "l", "p">>,
                                      <<"h", "e", "l", "p">>}
       THEN pc = "returned" /\ status.code = 0 /\ invoked = <<>>
       ELSE IF \E c \in KnownCommands : c[1] = argv[1]
       THEN /\ Len(invoked) = 1
            /\ <<argv[1], invoked[1].module>> \in KnownCommands
            /\ pc \in {"returned", "exited"}
               => /\ status.code = invoked[1].result.code
                  /\ (pc = "exited") = (invoked[1].result.msg = "exit")
       ELSE pc = "returned" /\ status.code = 1 /\ invoked = <<>>

\* A command that returned a status other than 0 was dispatched, and cli.main
\* returned that status.
C20_Witness ==
    /\ cmd = "cli" /\ pc = "returned"
    /\ argv # <<>> /\ argv[1] = sInitMin
    /\ Len(invoked) = 1 /\ invoked[1].module = "init_min"
    /\ status.code = 1

\* C30: cli.main(['test', p]) runs the test command on the directory p, and
\* cli.main(['test']) runs it on 'tests' under the working directory,
\* whatever sys.argv holds.
C30_TestGetsItsPath ==
    ( /\ cmd = "cli" /\ pc \notin {"main", "running"}
      /\ argv # <<>> /\ argv[1] = sTest )
    => /\ Len(argv) = 1 /\ exists(entries, <<sTests>>) => base = <<sTests>>
       /\ (Len(argv) = 2 /\ ~IsFlag(argv[2]) /\ exists(entries, Path(argv[2])))
          => base = Path(argv[2])

====
